---- MODULE Spec2Model ----
(***************************************************************************)
(* A model of ipfs-sync: the fingerprint store (db.go), the filesystem     *)
(* watcher (fsnotify.go) and the sync actuator, reconciliation loop and    *)
(* fault recovery (main.go).                                               *)
(*                                                                         *)
(* Strings are sequences of one-character strings, so that the code's      *)
(* strings.Split / strings.Join / prefix tests are computed, not assumed.  *)
(***************************************************************************)
EXTENDS Integers, Sequences, FiniteSets, TLC

\* ------------------------------------------------------------------ bounds
MaxFaults == 3      \* remote failures the environment may inject in one run
MaxFsOps == 2       \* filesystem mutations the environment performs in one run
MaxDBOps == 3       \* store operations applied in the store-only specification

\* ------------------------------------------------------- string primitives
Nil == <<>>         \* a nil []byte / the empty string (Go compares them equal via string())

SEP == "/"          \* os.PathSeparator
DOT == "."

HasPrefix(s, p) == Len(p) <= Len(s) /\ SubSeq(s, 1, Len(p)) = p

\* strings.Split(s, sep): the pieces of s between the places where sep stands
Split(s, sep) ==
  LET cut == {0, Len(s) + 1} \cup {i \in 1..Len(s) : s[i] = sep}
      nth(j) == CHOOSE p \in cut : Cardinality({q \in cut : q < p}) = j
  IN  [j \in 1..(Cardinality(cut) - 1) |-> SubSeq(s, nth(j - 1) + 1, nth(j) - 1)]

\* strings.Join(parts, sep)
RECURSIVE Join(_, _)
Join(parts, sep) ==
  LET join[ps \in {parts}] ==
        IF ps = <<>> THEN <<>>
        ELSE IF Len(ps) = 1 THEN ps[1]
        ELSE ps[1] \o <<sep>> \o Join(Tail(ps), sep)
  IN  join[parts]

Last(seq) == seq[Len(seq)]
Front(seq) == SubSeq(seq, 1, Len(seq) - 1)

\* findInStringSlice(slice, val) > -1
findInStringSlice(slice, val) == \E i \in 1..Len(slice) : slice[i] = val

\* ---------------------------------------------------------------- variables
VARIABLES
  IgnoreHidden,   \* configuration: ignore anything prefixed with "."
  Ignore,         \* configuration: the suffixes to ignore
  UseDB,          \* configuration: DBPath is set (DB != nil, Hashes != nil)
  EstuaryAPIKey,  \* configuration: the key of the pinning service, or blank
  DirKeys,        \* configuration and state: the sequence of *DirKey
  fs,             \* the local filesystem: path -> [kind, c, size, mtime]
  mfs,            \* the remote node's MFS below BasePath: path -> "dir" or a content id
  keys,           \* the remote node's key names
  ipns,           \* the remote node's published names: key name -> content id
  pins,           \* the remote node's recursive pins
  faults,         \* environment: remote failures still to be injected
  fsops,          \* environment: filesystem mutations still to be performed
  DB,             \* the leveldb store: key -> value
  Hashes,         \* the in-memory mirror: path -> FileHash
  HashLock,       \* the goroutine holding HashLock, or NoProc
  main,           \* the WatchDog goroutine
  wat,            \* the watcher goroutine of each directory
  events,         \* watcher.Events of each directory
  af,             \* the AddFile call of each goroutine
  posted,         \* history: the number of events delivered so far
  calls,          \* history: the remote calls of each goroutine's operation in progress
  applied,        \* history: the watcher operations completed, in order of completion
  polls,          \* history: the drift repairs of the poll loop completed, in order
  dbop,           \* history: the last store operation applied, with the store before it
  filestore       \* fileStoreCleanupLock and the CleanFilestore or RemoveCID call of each
                  \* goroutine; environment: the most entries the node streams in an answer

cfgVars == <<IgnoreHidden, Ignore, UseDB, EstuaryAPIKey>>
remoteVars == <<mfs, keys, ipns, pins>>
dbVars == <<DB, Hashes, HashLock>>
watVars == <<wat, events>>
histVars == <<posted, calls, applied, polls, dbop>>
vars == <<IgnoreHidden, Ignore, UseDB, EstuaryAPIKey, DirKeys, fs, mfs, keys, ipns, pins, faults, fsops,
          DB, Hashes, HashLock, main, wat, events, af, posted, calls, applied, polls, dbop,
          filestore>>

\* ------------------------------------------------- hash/fingerprint engine
\* An int64 (a size, a modification time in seconds) is kept as its eight bytes,
\* least significant first; I64(n) is the int64 of a number below 256.
I64(n) == <<n, 0, 0, 0, 0, 0, 0, 0>>

\* byte(0xff & (v >> shift)) for a non-negative int64 v: a shift of 64 leaves nothing
ByteAt(v, shift) == IF shift >= 64 THEN 0 ELSE v[(shift \div 8) + 1]

XXHash(c) == <<"xxh", c>>

\* GetHashValue(fpath, dontHash): nil when the file cannot be opened / stat'd
GetHashValue(fsys, fpath, dontHash) ==
  IF fpath \notin DOMAIN fsys THEN Nil
  ELSE IF ~dontHash
       THEN (IF fsys[fpath].kind = "file" THEN XXHash(fsys[fpath].c) ELSE Nil)
       ELSE LET size == fsys[fpath].size
                time == fsys[fpath].mtime
            IN  <<ByteAt(size, 0), ByteAt(size, 8), ByteAt(size, 16), ByteAt(size, 32),
                  ByteAt(size, 40), ByteAt(size, 48), ByteAt(size, 56), ByteAt(size, 64),
                  ByteAt(time, 0), ByteAt(time, 8), ByteAt(time, 16), ByteAt(time, 32),
                  ByteAt(time, 40), ByteAt(time, 48), ByteAt(time, 56), ByteAt(time, 64)>>

\* a FileHash value; NilFH is the nil *FileHash
NilFH == [PathOnDisk |-> Nil, Hash |-> Nil, FakeHash |-> Nil, isnil |-> TRUE]
NewFH == [PathOnDisk |-> Nil, Hash |-> Nil, FakeHash |-> Nil, isnil |-> FALSE]

\* (fh *FileHash) Recalculate(PathOnDisk, dontHash)
Recalculate(fh, fsys, PathOnDisk, dontHash) ==
  LET timestamp == GetHashValue(fsys, PathOnDisk, TRUE)
      fh1 == [fh EXCEPT !.PathOnDisk = PathOnDisk]
  IN  IF timestamp # fh.FakeHash
      THEN [fh1 EXCEPT !.FakeHash = timestamp,
                       !.Hash = IF ~dontHash THEN GetHashValue(fsys, PathOnDisk, FALSE)
                                ELSE fh.Hash]
      ELSE fh1

\* ------------------------------------------------------- fingerprint store
TS == <<"t", "s", "_">>

DBHas(db, key) == key \in DOMAIN db
DBGet(db, key) == IF key \in DOMAIN db THEN db[key] ELSE Nil
DBPut(db, key, val) == [k \in DOMAIN db \cup {key} |-> IF k = key THEN val ELSE db[k]]
DBDelete(db, key) == [k \in DOMAIN db \ {key} |-> db[k]]

\* the value Update returns: `return hashChanged && tsChanged`
ChangedEither(hashChanged, tsChanged) == hashChanged \/ tsChanged
Changed(hashChanged, tsChanged) == hashChanged /\ tsChanged

\* (fh *FileHash) Update(): the store after it, and the value it returns
Update(db, fh) ==
  IF fh.isnil THEN [db |-> db, ret |-> FALSE]
  ELSE
    LET hashPut == fh.Hash # Nil /\ (~DBHas(db, fh.PathOnDisk) \/ DBGet(db, fh.PathOnDisk) # fh.Hash)
        hashChanged == fh.Hash = Nil \/ hashPut
        db1 == IF hashPut THEN DBPut(db, fh.PathOnDisk, fh.Hash) ELSE db
        tsKey == TS \o fh.PathOnDisk
        tsChanged == ~DBHas(db1, tsKey) \/ DBGet(db1, tsKey) # fh.FakeHash
        db2 == IF tsChanged THEN DBPut(db1, tsKey, fh.FakeHash) ELSE db1
    IN  [db |-> db2, ret |-> Changed(hashChanged, tsChanged)]

\* util.BytesPrefix(path): the keys the iterator visits
BytesPrefix(db, path) == {k \in DOMAIN db : HasPrefix(k, path)}

\* (fh *FileHash) Delete(path): the store and the mirror after it
Delete(db, hashes, fh, path) ==
  LET p == IF ~fh.isnil THEN fh.PathOnDisk ELSE path
      hit == BytesPrefix(db, p)
      gone == hit \cup {TS \o k : k \in hit}
  IN  [db |-> [k \in DOMAIN db \ gone |-> db[k]],
       hashes |-> [k \in DOMAIN hashes \ hit |-> hashes[k]]]

\* Hashes[name], nil when absent
HashesGet(hashes, name) == IF name \in DOMAIN hashes THEN hashes[name] ELSE NilFH

\* get(path) of the store: the fingerprint record kept for a path, as HashDir reads it
GetRecord(db, path) ==
  [has |-> DBHas(db, path) \/ DBHas(db, TS \o path),
   hash |-> DBGet(db, path), ts |-> DBGet(db, TS \o path)]

\* ------------------------------------------------------------ local files
\* The file states the environment chooses from: V1 and V2 differ in content only
\* (same size, same second), V3 differs from both in size and time, V4 is V1
\* touched: the same content and size at a later time.
V1 == [kind |-> "file", c |-> 1, size |-> I64(1), mtime |-> I64(1)]
V2 == [kind |-> "file", c |-> 2, size |-> I64(1), mtime |-> I64(1)]
V3 == [kind |-> "file", c |-> 3, size |-> I64(2), mtime |-> I64(2)]
V4 == [kind |-> "file", c |-> 1, size |-> I64(1), mtime |-> I64(3)]
Versions == {V1, V2, V3, V4}
DirEnt == [kind |-> "dir", c |-> 0, size |-> I64(0), mtime |-> I64(0)]
\* V1 while it cannot be opened (os.Stat succeeds, os.Open fails), and a path that
\* cannot be stat'd either
Locked == [kind |-> "locked", c |-> 1, size |-> I64(1), mtime |-> I64(1)]
Absent == [kind |-> "absent", c |-> 0, size |-> I64(0), mtime |-> I64(0)]

NoProc == -1         \* HashLock is free
NoOp == [op |-> "none", n |-> 0, rerr |-> <<>>]
NoScans == [lock |-> 0, cf |-> <<>>, most |-> 0]  \* no call, the guard channel empty

\* The paths of the store-only specification
PAB == <<"/", "a", "/", "b">>
PABC == <<"/", "a", "/", "b", "/", "c">>
PABc == <<"/", "a", "/", "b", "c">>
PAC == <<"/", "a", "/", "c">>
DBPaths == {PAB, PABC, PABc, PAC}

\* ------------------------------------------- the store-only specification
\* The store part of the watcher's addFile (Recalculate, then Update) and of its
\* remove handling (Delete), applied to paths and file states drawn from bounded
\* sets; one of the paths may also be unreadable or missing.
InitDB ==
  /\ IgnoreHidden = FALSE /\ Ignore = <<>> /\ UseDB = TRUE /\ EstuaryAPIKey = Nil
  /\ DirKeys = <<>>
  /\ fs = <<>> /\ mfs = <<>> /\ keys = {} /\ ipns = <<>> /\ pins = {}
  /\ faults = 0 /\ fsops = 0
  /\ DB = <<>> /\ Hashes = <<>> /\ HashLock = NoProc
  /\ main = [pc |-> "store"] /\ wat = <<>> /\ events = <<>> /\ af = <<>>
  /\ posted = 0 /\ calls = <<>> /\ applied = <<>> /\ polls = <<>>
  /\ dbop = NoOp
  /\ filestore = NoScans

StorePut(fname, v, dontHash) ==
  LET fsys == IF v = Absent THEN <<>> ELSE (fname :> v)
      fh == Recalculate(IF HashesGet(Hashes, fname).isnil THEN NewFH
                        ELSE HashesGet(Hashes, fname), fsys, fname, dontHash)
      u == Update(DB, fh)
  IN  /\ main.pc = "store" /\ dbop.n < MaxDBOps
      /\ Hashes' = [k \in DOMAIN Hashes \cup {fname} |-> IF k = fname THEN fh ELSE Hashes[k]]
      /\ DB' = u.db
      /\ dbop' = [op |-> "put", n |-> dbop.n + 1, path |-> fname, fh |-> fh,
                  dontHash |-> dontHash, ret |-> u.ret, before |-> DB, beforeH |-> Hashes, rerr |-> <<>>]
      /\ UNCHANGED <<cfgVars, filestore, DirKeys, fs, remoteVars, faults, fsops, HashLock, main,
                     watVars, af, posted, calls, applied, polls>>

StoreDelete(name) ==
  LET d == Delete(DB, Hashes, HashesGet(Hashes, name), name)
  IN  /\ main.pc = "store" /\ dbop.n < MaxDBOps
      /\ DB' = d.db
      /\ Hashes' = d.hashes
      /\ dbop' = [op |-> "delete", n |-> dbop.n + 1, path |-> name, fh |-> NilFH,
                  ret |-> FALSE, before |-> DB, beforeH |-> Hashes, rerr |-> <<>>]
      /\ UNCHANGED <<cfgVars, filestore, DirKeys, fs, remoteVars, faults, fsops, HashLock, main,
                     watVars, af, posted, calls, applied, polls>>

NextDB ==
  \/ \E fname \in DBPaths, v \in Versions, dontHash \in BOOLEAN : StorePut(fname, v, dontHash)
  \/ \E v \in {Locked, Absent}, dontHash \in BOOLEAN : StorePut(PAB, v, dontHash)
  \/ \E name \in DBPaths : StoreDelete(name)

SpecDB == InitDB /\ [][NextDB]_vars

\* a path strictly inside directory p
Inside(k, p) == HasPrefix(k, p \o <<SEP>>)
\* a path that only shares p as a string prefix
SiblingOf(k, p) == HasPrefix(k, p) /\ k # p /\ ~Inside(k, p)

\* C4 (as claimed): after deletePrefix(p), p and every path inside p have no record,
\* and every sibling path that merely shares p as a string prefix keeps its record.
C4_DeletePrefixSparesSiblings ==
  dbop.op = "delete" =>
    /\ ~GetRecord(DB, dbop.path).has
    /\ \A k \in DBPaths : Inside(k, dbop.path) => ~GetRecord(DB, k).has
    /\ \A k \in DBPaths : SiblingOf(k, dbop.path) =>
          GetRecord(DB, k) = GetRecord(dbop.before, k)

\* the parts of a fingerprint that differ from, or are absent from, a store
TsDiffers(db, fh) ==
  ~DBHas(db, TS \o fh.PathOnDisk) \/ DBGet(db, TS \o fh.PathOnDisk) # fh.FakeHash
HashDiffers(db, fh) ==
  fh.Hash # Nil /\ (~DBHas(db, fh.PathOnDisk) \/ DBGet(db, fh.PathOnDisk) # fh.Hash)

\* the store holds the fingerprint, and nothing else of it has changed
Stored(db, before, fh) ==
  /\ DBHas(db, TS \o fh.PathOnDisk) /\ DBGet(db, TS \o fh.PathOnDisk) = fh.FakeHash
  /\ fh.Hash # Nil => DBHas(db, fh.PathOnDisk) /\ DBGet(db, fh.PathOnDisk) = fh.Hash
  /\ \A k \in (DOMAIN db \cup DOMAIN before) \ {fh.PathOnDisk, TS \o fh.PathOnDisk} :
       k \in DOMAIN db /\ k \in DOMAIN before /\ db[k] = before[k]

\* C11 (as claimed): put with a fingerprint equal to the stored one writes nothing
\* and reports unchanged; with a fingerprint that differs from the stored one in any
\* part, or is absent from the store, it stores the fingerprint and reports changed.
C11_PutReportsEveryChange ==
  dbop.op = "put" =>
    IF ~TsDiffers(dbop.before, dbop.fh) /\ ~HashDiffers(dbop.before, dbop.fh)
    THEN DB = dbop.before /\ ~dbop.ret
    ELSE Stored(DB, dbop.before, dbop.fh) /\ dbop.ret

\* C11 (amended): put with a fingerprint equal to the stored one writes nothing and
\* reports unchanged; otherwise it stores the fingerprint, and it reports changed
\* exactly when the size+time part differs from (or is absent from) the store and
\* the content part either is not part of the fingerprint or differs as well.
C11_PutReport ==
  dbop.op = "put" =>
    /\ (~TsDiffers(dbop.before, dbop.fh) /\ ~HashDiffers(dbop.before, dbop.fh))
          => (DB = dbop.before /\ ~dbop.ret)
    /\ Stored(DB, dbop.before, dbop.fh)
    /\ dbop.ret <=> (/\ TsDiffers(dbop.before, dbop.fh)
                     /\ (dbop.fh.Hash = Nil \/ HashDiffers(dbop.before, dbop.fh)))

\* a touched file under the content strategy: the new time is stored, the put
\* reports unchanged; and a put of a new file that reports changed
C11_Witness ==
  /\ dbop.op = "put" /\ dbop.fh.Hash # Nil
  /\ TsDiffers(dbop.before, dbop.fh) /\ ~HashDiffers(dbop.before, dbop.fh)
  /\ ~dbop.ret /\ DB # dbop.before
  /\ \E k \in DBPaths : k # dbop.path /\ DBHas(DB, k)

\* the fingerprint of a put came back unknown: the size+time part is nil (the path
\* could not be stat'd) or, under the content strategy, the content part is nil
Unknown(fh, dontHash) == fh.FakeHash = Nil \/ (~dontHash /\ fh.Hash = Nil)

\* C30 (as claimed): a put whose fingerprint came back unknown reports the path as
\* changed, every time: also when the record of the path was written by an earlier
\* put with an unknown fingerprint, and when the file has become readable since
\* with the same size and modification time.
C30_UnknownReportsChanged ==
  (dbop.op = "put" /\ Unknown(dbop.fh, dbop.dontHash)) => dbop.ret

\* -------------------------------------------------------------- remote node
\* Error texts are sequences of words; the empty sequence is no error.
NoErr == <<>>
ErrTimeout == <<"context", "deadline", "exceeded">>
ErrFailedBlock == <<"failed", "to", "get", "block">>
ErrNoSuchFile == <<"open", "no", "such", "file", "or", "directory">>
ErrExists == <<"directory", "already", "has", "entry", "by", "that", "name">>
ErrNotExist == <<"file", "does", "not", "exist">>
ErrNotPinned == <<"not", "pinned">>
ErrResolve == <<"could", "not", "resolve", "name">>
ErrArg == <<"argument", "is", "required">>
ErrInvalidPath == <<"invalid", "path">>
\* the error object the node answers `add` with when it refuses the upload
ErrNodeAdd == <<"filestore", "is", "not", "enabled">>

APIKey == <<"k", "e", "y">>     \* an EstuaryAPIKey that is not blank

HasSuffix(s, x) == Len(x) <= Len(s) /\ SubSeq(s, Len(s) - Len(x) + 1, Len(s)) = x

\* the test of HandleBadBlockError on the error text
BadBlockText(txt) ==
  \/ HasPrefix(txt, <<"failed", "to", "get", "block">>)
  \/ HasSuffix(txt, <<"no", "such", "file", "or", "directory">>)

\* The failures the environment may inject into a request of the given kind: a
\* timeout into any request, a dangling-reference error into files/cp and
\* pin/update, an error object as the answer of add.
Inject(kind) ==
  {NoErr} \cup
  (IF faults > 0
   THEN {ErrTimeout} \cup (IF kind \in {"cp", "pinupdate"} THEN {ErrFailedBlock, ErrNoSuchFile} ELSE {})
                    \cup (IF kind = "add" THEN {ErrNodeAdd} ELSE {})
   ELSE {})

\* the content id `add` returns for a file's bytes
CidOf(c) == <<"Qm", c>>

MfsIsDir(m, path) == path \in DOMAIN m /\ m[path] = "dir"
MfsParent(path) == Join(Front(Split(path, "/")), "/")

\* path and its ancestors, as files/mkdir?parents=true creates them
MfsAncestors(path) ==
  LET sp == Split(path, "/") IN
  IF path = <<>> THEN {} ELSE {Join(SubSeq(sp, 1, n), "/") : n \in 1..Len(sp)}

\* files/mkdir?parents=true
MfsMkdirErr(m, path) ==
  IF \E a \in MfsAncestors(path) : a \in DOMAIN m /\ m[a] # "dir" THEN ErrExists ELSE NoErr
MfsMkdir(m, path) ==
  [k \in DOMAIN m \cup MfsAncestors(path) |-> IF k \in DOMAIN m THEN m[k] ELSE "dir"]

\* files/rm?force=true
MfsRmErr(m, path) == IF path \in DOMAIN m THEN NoErr ELSE ErrNotExist
MfsRm(m, path) ==
  [k \in {x \in DOMAIN m : x # path /\ ~HasPrefix(x, path \o <<"/">>)} |-> m[k]]

\* files/cp /ipfs/<cid> path
MfsCpErr(m, path) ==
  IF path \in DOMAIN m THEN ErrExists
  ELSE IF ~MfsIsDir(m, MfsParent(path)) THEN ErrNotExist
  ELSE NoErr
MfsCp(m, cid, path) ==
  [k \in DOMAIN m \cup {path} |-> IF k = path THEN cid ELSE m[k]]

\* the content id files/stat reports for an entry: a file's own id, or for a
\* directory an id determined by its content, the names (relative to it) and ids of
\* everything below it, wherever the directory is mounted
MfsCid(m, path) ==
  IF m[path] # "dir" THEN m[path]
  ELSE <<"QmDir", [r \in {SubSeq(x, Len(path) + 2, Len(x)) :
                            x \in {y \in DOMAIN m : HasPrefix(y, path \o <<"/">>)}}
                     |-> m[path \o <<"/">> \o r]]>>

\* The blocks a recursive pin holds besides its own: for a directory the files
\* below it and their chunks, for a file its chunks.
LeafOf(cid) == Append(cid, "leaf")
Blocks(P) ==
  IF P = Nil THEN {}
  ELSE IF P[1] = "QmDir"
  THEN LET files == {P[2][r] : r \in {x \in DOMAIN P[2] : P[2][x] # "dir"}}
       IN  files \cup {LeafOf(f) : f \in files}
  ELSE {LeafOf(P)}

\* block/rm?arg=cid: the answers the node may give. A block that is pinned itself is
\* refused without the pin's id in the text, a block held by another pin with it.
ErrPinned == <<"pinned", "(recursive)">>
ErrPinnedVia(P) == <<"pinned", "via", P>>
BlockRmErr(ps, cid) ==
  IF cid = Nil THEN {ErrArg}
  ELSE IF cid \in ps THEN {ErrPinned}
  ELSE IF \E P \in ps : cid \in Blocks(P) THEN {ErrPinnedVia(P) : P \in {Q \in ps : cid \in Blocks(Q)}}
  ELSE {NoErr}

\* pin/rm?arg=cid
ErrRefused == <<"connection", "refused">>
PinRmErr(ps, cid) == IF cid \in ps THEN NoErr ELSE ErrNotPinned
PinRm(ps, cid) == ps \ {cid}

\* ------------------------------------------------------------------ AddFile
Main == 0           \* the WatchDog goroutine; the watcher of DirKeys[i] is goroutine i
Procs == {Main} \cup (1..Len(DirKeys))

NoCall == [pc |-> "none", from |-> Nil, to |-> Nil, nocopy |-> FALSE, makedir |-> FALSE,
           overwrite |-> FALSE, depth |-> 0, hash |-> Nil, rhash |-> Nil, rerr |-> NoErr,
           inj |-> 0]

\* a CleanFilestore or RemoveCID call: its position, whether it took the guard,
\* whether it has issued a remote call, the stream and the number of entries the
\* decoder has consumed, the argument and `found` of RemoveCID, the content id
\* RemoveBlock works on, the pin it removes and where it returns to; history: the
\* entries whose decoding failed and the entries a block/rm was issued for
NoClean == [pc |-> "idle", got |-> FALSE, remote |-> FALSE, stream |-> <<>>, pos |-> 0,
            root |-> Nil, found |-> FALSE, cid |-> Nil, cid2 |-> Nil, back |-> "",
            failed |-> {}, rm |-> {}]

\* the call AddFile(from, to, nocopy, makedir, overwrite) at its first statement
Call(from, to, nocopy, makedir, overwrite) ==
  [pc |-> "add", from |-> from, to |-> to, nocopy |-> nocopy, makedir |-> makedir,
   overwrite |-> overwrite, depth |-> 1, hash |-> Nil, rhash |-> Nil, rerr |-> NoErr,
   inj |-> 0]

\* `return h, e`: the values of the outermost call are the ones the caller sees; the
\* values a retrying (recursive) call returns are dropped at line 263
Return(f, h, e) ==
  IF f.depth = 1 THEN [f EXCEPT !.pc = "ret", !.rhash = h, !.rerr = e]
  ELSE [f EXCEPT !.pc = "ret"]

Logged(p, op, arg, err) == [calls EXCEPT ![p] = Append(@, [op |-> op, arg |-> arg, err |-> err])]
Spend(inj) == IF inj = NoErr THEN faults ELSE faults - 1
Hit(f, inj) == IF inj = NoErr THEN f ELSE [f EXCEPT !.inj = @ + 1]

\* what AddFile does after the upload: if makedir { MakeDir }, if overwrite { RemoveFile }
StepAfterAddNoRm(f) == IF f.makedir THEN "mkdir" ELSE "cp"
StepAfterAdd(f) == IF f.makedir THEN "mkdir" ELSE IF f.overwrite THEN "rm" ELSE "cp"
StepAfterMkDir(f) == IF f.overwrite THEN "rm" ELSE "cp"

\* IPFSAddFile(fpath, nocopy, onlyhash) of a file that can be opened, by the answer
\* of the add request: the request fails and its error is returned; the answer is
\* decoded into a HashStruct without a look at what it is, so that an error object
\* of the node gives an empty Hash and no error; else the Hash of the file's bytes
IPFSAddFile(fsys, fpath, ans) ==
  IF ans = NoErr THEN [Hash |-> CidOf(fsys[fpath].c), err |-> NoErr]
  ELSE IF ans = ErrNodeAdd THEN [Hash |-> Nil, err |-> NoErr]
  ELSE [Hash |-> Nil, err |-> ans]

\* hash, err := IPFSAddFile(from, nocopy, false); if err != nil { return "", err }
AF_Add(p) ==
  /\ af[p].pc = "add"
  /\ LET f == af[p] IN
     IF f.from \notin DOMAIN fs
     THEN /\ af' = [af EXCEPT ![p] = Return(f, Nil, ErrNoSuchFile)]
          /\ UNCHANGED <<faults, calls>>
     ELSE \E inj \in Inject("add") : \E r \in {IPFSAddFile(fs, f.from, inj)} :
          /\ faults' = Spend(inj)
          /\ calls' = Logged(p, "add", f.from, inj)
          /\ af' = [af EXCEPT ![p] =
                      IF r.err # NoErr THEN Return(Hit(f, inj), Nil, r.err)
                      ELSE [Hit(f, inj) EXCEPT !.hash = r.Hash, !.pc = StepAfterAdd(f)]]
  /\ UNCHANGED <<cfgVars, filestore, DirKeys, fs, remoteVars, fsops, dbVars, main, watVars,
                 posted, applied, polls, dbop>>

\* err = MakeDir(parent); if err != nil { return "", err }
MkDirFailedIgnored(err) == FALSE
MkDirFailed(err) == err # NoErr

\* MakeDir(parent)
AF_MkDir(p) ==
  /\ af[p].pc = "mkdir"
  /\ \E f \in {af[p]} : \E parent \in {Join(Front(Split(f.to, "/")), "/")} :
     \E inj \in Inject("mkdir") :
       \E err \in {IF inj # NoErr THEN inj ELSE MfsMkdirErr(mfs, parent)} :
         /\ faults' = Spend(inj)
         /\ calls' = Logged(p, "mkdir", parent, err)
         /\ mfs' = IF err = NoErr THEN MfsMkdir(mfs, parent) ELSE mfs
         /\ af' = [af EXCEPT ![p] =
                     IF MkDirFailed(err) THEN Return(Hit(f, inj), Nil, err)
                     ELSE [f EXCEPT !.pc = StepAfterMkDir(f)]]
  /\ UNCHANGED <<cfgVars, filestore, DirKeys, fs, keys, ipns, pins, fsops, dbVars, main, watVars,
                 posted, applied, polls, dbop>>

\* if overwrite { RemoveFile(to) }: the result is not looked at
AF_Rm(p) ==
  /\ af[p].pc = "rm"
  /\ LET f == af[p] IN
     \E inj \in Inject("rm") :
         LET err == IF inj # NoErr THEN inj ELSE MfsRmErr(mfs, f.to) IN
         /\ faults' = Spend(inj)
         /\ calls' = Logged(p, "rm", f.to, err)
         /\ mfs' = IF err = NoErr THEN MfsRm(mfs, f.to) ELSE mfs
         /\ af' = [af EXCEPT ![p] = [Hit(f, inj) EXCEPT !.pc = "cp"]]
  /\ UNCHANGED <<cfgVars, filestore, DirKeys, fs, keys, ipns, pins, fsops, dbVars, main, watVars,
                 posted, applied, polls, dbop>>

\* the files/cp request, which the node refuses when the source is "/ipfs/" with
\* an empty Hash, and the test of its error by HandleBadBlockError
AF_Cp(p) ==
  /\ af[p].pc = "cp"
  /\ \E f \in {af[p]} : \E inj \in Inject(IF f.hash = Nil THEN "cpnone" ELSE "cp") :
       \E err \in {IF inj # NoErr THEN inj ELSE IF f.hash = Nil THEN ErrInvalidPath
                    ELSE MfsCpErr(mfs, f.to)} :
       \E g \in {Hit(f, inj)} :
         /\ faults' = Spend(inj)
         /\ calls' = Logged(p, "cp", f.to, err)
         /\ mfs' = IF err = NoErr THEN MfsCp(mfs, f.hash, f.to) ELSE mfs
         /\ af' = [af EXCEPT ![p] =
                     IF err = NoErr THEN Return(g, f.hash, NoErr)
                     ELSE IF BadBlockText(err)
                          THEN [g EXCEPT !.pc = "recover",
                                         !.rhash = IF f.depth = 1 THEN f.hash ELSE @,
                                         !.rerr = IF f.depth = 1 THEN err ELSE @]
                          ELSE Return(g, f.hash, err)]
  /\ UNCHANGED <<cfgVars, filestore, DirKeys, fs, keys, ipns, pins, fsops, dbVars, main, watVars,
                 posted, applied, polls, dbop>>

\* HandleBadBlockError(err, from, nocopy) with a known path: the only-hash add; when
\* it fails the error is logged and AddFile calls itself (main.go:263), else
\* RemoveCID of its result, which is empty after an error object, begins
AF_Recover(p) ==
  /\ af[p].pc = "recover"
  /\ LET f == af[p] IN
     IF f.from \notin DOMAIN fs
     THEN /\ calls' = Logged(p, "recover", f.from, ErrNoSuchFile)
          /\ af' = [af EXCEPT ![p] = [f EXCEPT !.pc = "add", !.depth = @ + 1]]
          /\ UNCHANGED <<faults, filestore>>
     ELSE \E inj \in Inject("add") : \E r \in {IPFSAddFile(fs, f.from, inj)} :
          /\ faults' = Spend(inj)
          /\ calls' = Logged(p, "recover", f.from, inj)
          /\ af' = [af EXCEPT ![p] = IF r.err # NoErr
                                     THEN [Hit(f, inj) EXCEPT !.pc = "add", !.depth = @ + 1]
                                     ELSE [Hit(f, inj) EXCEPT !.pc = "removecid"]]
          /\ filestore' = IF r.err # NoErr THEN filestore
                          ELSE [filestore EXCEPT !.cf[p] =
                                  [NoClean EXCEPT !.pc = "refs", !.root = r.Hash]]
  /\ UNCHANGED <<cfgVars, DirKeys, fs, remoteVars, fsops, dbVars, main, watVars,
                 posted, applied, polls, dbop>>

\* ------------------------- RemoveCID, CleanFilestore, RemoveBlock (main.go)
\* RemoveCID streams the answer of refs and CleanFilestore, guarded by the one-slot
\* channel fileStoreCleanupLock, the answer of filestore/verify; both call
\* RemoveBlock, one request after the other, while the other goroutines run.
MaxStream == 3      \* entries in one filestore/verify answer, for the scan alone
MaxAnswer == 1      \* entries in one streamed answer, for the running program

NoFile == 11        \* const NoFile FileStoreStatus

\* one entry of a filestore/verify stream: a JSON value that decodes into a
\* FileStoreEntry, a well-formed JSON value that does not (a field of the wrong
\* type), or text that is not a JSON value (a syntax error, a stream cut in the
\* middle of an entry)
EntMissing == [json |-> "value", Status |-> NoFile, Key |-> CidOf(V1.c)]
EntOk == [json |-> "value", Status |-> 0, Key |-> CidOf(V2.c)]
EntChanged == [json |-> "value", Status |-> 12, Key |-> CidOf(V3.c)]
EntMistyped == [json |-> "mistyped", Status |-> 0, Key |-> Nil]
EntSyntax == [json |-> "syntax", Status |-> 0, Key |-> Nil]
Entries == {EntMissing, EntOk, EntChanged, EntMistyped, EntSyntax}

\* one entry of a refs stream for cid: a chunk of it, an entry without a Ref, or
\* one that does not decode; for an empty cid the node's error object, which has
\* no Ref
RefEntries(cid) ==
  IF cid = Nil THEN {[json |-> "value", Ref |-> Nil]}
  ELSE {[json |-> "value", Ref |-> LeafOf(cid)], [json |-> "value", Ref |-> Nil],
        [json |-> "mistyped", Ref |-> Nil], [json |-> "syntax", Ref |-> Nil]}

\* the streams of at most n entries
RECURSIVE StreamsOf(_, _)
StreamsOf(E, n) ==
  IF n = 0 THEN {<<>>}
  ELSE StreamsOf(E, n - 1) \cup
       {Append(s, e) : s \in {t \in StreamsOf(E, n - 1) : Len(t) = n - 1}, e \in E}

\* the goroutines that call CleanFilestore in the specification of the scan alone
Cleaners == {0, 1}

cleanRest == <<cfgVars, DirKeys, fs, mfs, keys, ipns, fsops, dbVars, watVars, histVars>>

\* case fileStoreCleanupLock <- 1: the send succeeds when the channel has room
Take(lock) == lock = 0

\* defer func() { <-fileStoreCleanupLock }()
ReleaseNever(lock) == lock
Release(lock) == lock - 1

\* dec.More(): something other than white space is left in the decoder's buffer
More(f) == f.pos < Len(f.stream)

\* the pin RemoveBlock removes for a "pinned" answer: the third word of the error
\* text, or the content id itself when the text has fewer than three words
PinOf(err, cid) == IF Len(err) < 3 THEN cid ELSE err[3]

\* a CleanFilestore call that took the guard and has returned: its locals are gone
Returned == [NoClean EXCEPT !.pc = "ret", !.got = TRUE, !.remote = TRUE]

\* the caller goes on: HandleBadBlockError returns true, and AddFile calls itself
\* (main.go:263), UpdatePin calls itself (main.go:484)
Resume(p) ==
  /\ main' = IF p = Main /\ main.pc = "cleanfs" THEN [main EXCEPT !.pc = "pinupdate"]
             ELSE main
  /\ af' = IF p \in DOMAIN af /\ af[p].pc = "removecid"
           THEN [af EXCEPT ![p].pc = "add", ![p].depth = @ + 1]
           ELSE af

\* the select on the guard: with it the call goes on to its request, without it
\* the call returns at once
Select(p) ==
  IF Take(filestore.lock)
  THEN /\ filestore' = [filestore EXCEPT !.lock = @ + 1,
                                         !.cf[p] = [NoClean EXCEPT !.pc = "verify", !.got = TRUE]]
       /\ UNCHANGED <<main, af>>
  ELSE /\ filestore' = [filestore EXCEPT !.cf[p] = [NoClean EXCEPT !.pc = "ret"]]
       /\ Resume(p)

\* a call of CleanFilestore by a goroutine of the scan specification
CF_Enter(p) ==
  /\ main.pc = "clean"
  /\ filestore.cf[p].pc \in {"idle", "ret"}
  /\ Select(p)
  /\ UNCHANGED <<cleanRest, pins, faults>>

\* POST filestore/verify: the request fails, or the answer starts to stream
CF_Verify(p) ==
  /\ filestore.cf[p].pc = "verify"
  /\ \E inj \in Inject("verify") :
       /\ faults' = Spend(inj)
       /\ IF inj # NoErr
          THEN /\ filestore' = [filestore EXCEPT !.lock = Release(@), !.cf[p] = Returned]
               /\ Resume(p)
          ELSE /\ \E s \in StreamsOf(Entries, filestore.most) :
                    filestore' = [filestore EXCEPT !.cf[p].pc = "loop",
                                                   !.cf[p].remote = TRUE, !.cf[p].stream = s]
               /\ UNCHANGED <<main, af>>
  /\ UNCHANGED <<cleanRest, pins>>

\* one turn of `for dec.More()`: Decode consumes a well-formed value whether or not
\* it fits the FileStoreEntry, and consumes nothing of text that is not a value (the
\* decoder keeps the error and returns it again on every later call)
CF_Decode(p) ==
  LET f == filestore.cf[p]
      e == f.stream[f.pos + 1]
  IN  /\ f.pc = "loop"
      /\ IF ~More(f)
         THEN /\ filestore' = [filestore EXCEPT !.lock = Release(@), !.cf[p] = Returned]
              /\ Resume(p)
         ELSE /\ UNCHANGED <<main, af>>
              /\ IF e.json = "syntax"
                 THEN filestore' = [filestore EXCEPT !.cf[p].failed = @ \cup {f.pos + 1}]
                 ELSE IF e.json = "mistyped"
                 THEN filestore' = [filestore EXCEPT !.cf[p].failed = @ \cup {f.pos + 1},
                                                     !.cf[p].pos = f.pos + 1]
                 ELSE IF e.Status = NoFile
                 THEN filestore' = [filestore EXCEPT !.cf[p].pos = f.pos + 1,
                                                     !.cf[p].pc = "blockrm",
                                                     !.cf[p].cid = e.Key,
                                                     !.cf[p].back = "loop"]
                 ELSE filestore' = [filestore EXCEPT !.cf[p].pos = f.pos + 1]
      /\ UNCHANGED <<cleanRest, pins, faults>>

\* RemoveCID(cid): the refs request fails and RemoveCID returns, or the answer
\* starts to stream
RC_Refs(p) ==
  /\ filestore.cf[p].pc = "refs"
  /\ \E inj \in Inject("refs") :
       /\ faults' = Spend(inj)
       /\ IF inj # NoErr
          THEN /\ filestore' = [filestore EXCEPT !.cf[p] = NoClean]
               /\ Resume(p)
          ELSE /\ \E s \in StreamsOf(RefEntries(filestore.cf[p].root), filestore.most) :
                    filestore' = [filestore EXCEPT !.cf[p].pc = "refloop",
                                                   !.cf[p].remote = TRUE, !.cf[p].stream = s]
               /\ UNCHANGED <<main, af>>
  /\ UNCHANGED <<cleanRest, pins>>

\* one turn of `for dec.More()` in RemoveCID: found is set before the entry is
\* decoded, an entry without a Ref stands for the cid itself; after the stream
\* RemoveBlock(cid) if nothing was found
RC_Decode(p) ==
  LET f == filestore.cf[p]
      e == f.stream[f.pos + 1]
  IN  /\ f.pc = "refloop"
      /\ IF ~More(f) /\ f.found
         THEN /\ filestore' = [filestore EXCEPT !.cf[p] = NoClean]
              /\ Resume(p)
         ELSE /\ UNCHANGED <<main, af>>
              /\ IF ~More(f)
                 THEN filestore' = [filestore EXCEPT !.cf[p].pc = "blockrm",
                                                     !.cf[p].cid = f.root,
                                                     !.cf[p].back = "ret"]
                 ELSE IF e.json = "syntax"
                 THEN filestore' = [filestore EXCEPT !.cf[p].found = TRUE,
                                                     !.cf[p].failed = @ \cup {f.pos + 1}]
                 ELSE IF e.json = "mistyped"
                 THEN filestore' = [filestore EXCEPT !.cf[p].found = TRUE,
                                                     !.cf[p].failed = @ \cup {f.pos + 1},
                                                     !.cf[p].pos = f.pos + 1]
                 ELSE filestore' = [filestore EXCEPT !.cf[p].found = TRUE,
                                                     !.cf[p].pos = f.pos + 1,
                                                     !.cf[p].pc = "blockrm",
                                                     !.cf[p].cid = IF e.Ref = Nil THEN f.root
                                                                   ELSE e.Ref,
                                                     !.cf[p].back = "refloop"]
      /\ UNCHANGED <<cleanRest, pins, faults>>

\* RemoveBlock: block/rm, and for as long as the answer starts with "pinned" ...
RB_BlockRm(p) ==
  LET f == filestore.cf[p]
  IN  /\ f.pc = "blockrm"
      /\ \E inj \in Inject("blockrm") :
         \E err \in (IF inj # NoErr THEN {inj} ELSE BlockRmErr(pins, f.cid)) :
           /\ faults' = Spend(inj)
           /\ IF HasPrefix(err, <<"pinned">>)
              THEN /\ filestore' = [filestore EXCEPT !.cf[p].pc = "pinrm",
                                                     !.cf[p].rm = @ \cup {f.pos},
                                                     !.cf[p].cid2 = PinOf(err, f.cid)]
                   /\ UNCHANGED <<main, af>>
              ELSE IF f.back = "ret"
              THEN /\ filestore' = [filestore EXCEPT !.cf[p] = NoClean]
                   /\ Resume(p)
              ELSE /\ filestore' = [filestore EXCEPT !.cf[p].pc = f.back,
                                                     !.cf[p].rm = @ \cup {f.pos},
                                                     !.cf[p].cid2 = Nil]
                   /\ UNCHANGED <<main, af>>
      /\ UNCHANGED <<cleanRest, pins>>

\* ... pin/rm of the pin named in it, which the node removes; a failure of the
\* request (it has no timeout, and its failures are not counted) is only logged;
\* then block/rm again
RB_PinRm(p) ==
  LET f == filestore.cf[p]
  IN  /\ f.pc = "pinrm"
      /\ \E err \in {PinRmErr(pins, f.cid2)} \cup (IF faults > 0 THEN {ErrRefused} ELSE {}) :
           /\ pins' = IF err = NoErr THEN PinRm(pins, f.cid2) ELSE pins
           /\ filestore' = [filestore EXCEPT !.cf[p].pc = "blockrm"]
      /\ UNCHANGED <<cleanRest, faults, main, af>>


\* ------------------------------------------------------- the watched tree
\* The directory of the model, "/w/", and the entries the environment may put in it.
R == <<"/", "w">>
RDir == <<"/", "w", "/">>
FA == <<"/", "w", "/", "a">>
FH == <<"/", "w", "/", ".", "h">>
FP == <<"/", "w", "/", "a", ".", "p">>
DD == <<"/", "w", "/", "d">>
FDB == <<"/", "w", "/", "d", "/", "b">>
FDH == <<"/", "w", "/", "d", "/", ".", "h">>
FDP == <<"/", "w", "/", "d", "/", "b", ".", "p">>
DC == <<"/", "w", "/", ".", "c">>
FCB == <<"/", "w", "/", ".", "c", "/", "b">>
UFiles == {FA, FH, FP, FDB, FDH, FDP, FCB}
UDirs == {DD, DC}
\* two directories below "/w/d", one of them hidden, each with a file
DE == <<"/", "w", "/", "d", "/", "e">>
FDEB == <<"/", "w", "/", "d", "/", "e", "/", "b">>
DDC == <<"/", "w", "/", "d", "/", ".", "c">>
FDCB == <<"/", "w", "/", "d", "/", ".", "c", "/", "b">>
NestedDirs == {DE, DDC}
\* a second directory, "/v/", and its file
R2 == <<"/", "v">>
R2Dir == <<"/", "v", "/">>
FVA == <<"/", "v", "/", "a">>
\* every entry in the order filepath.WalkDir visits them (lexical within a directory)
WalkOrder == <<R2, FVA, R, DC, FCB, FH, FA, FP, DD, DDC, FDCB, FDH, FDB, FDP, DE, FDEB>>

IsFile(fsys, k) == k \in DOMAIN fsys /\ fsys[k].kind = "file"
IsDir(fsys, k) == k \in DOMAIN fsys /\ fsys[k].kind = "dir"
Parent(k) == Join(Front(Split(k, SEP)), SEP)
Under(k, d) == k = d \/ HasPrefix(k, d \o <<SEP>>)
TrimSep(s) == IF Len(s) > 1 /\ Last(s) = SEP THEN Front(s) ELSE s

\* the hidden test of watchThis, addDir and the event loop on a path's last segment,
\* or on the segment before it when the last one is empty; the code does not test
\* the length of that one, and the test has no value when it is empty too (the code
\* panics: index out of range)
HiddenSeg(path) ==
  LET sp == Split(path, SEP) IN
  IF Len(Last(sp)) > 0 THEN Last(sp)[1] = DOT
  ELSE sp[Len(sp) - 1][1] = DOT

\* the hidden test of filePathWalkDir on a directory
HiddenDirName(path) ==
  LET sp == Split(path, SEP) IN Len(Last(sp)) > 0 /\ Last(sp)[1] = DOT

\* the hidden test of filePathWalkDir and AddDir on a file
HiddenFileName(path) == Last(Split(path, SEP))[1] = DOT

\* the ignore-suffix test: the text after the last "." of the whole path
IgnoredSuffix(ignore, path) == findInStringSlice(ignore, Last(Split(path, DOT)))

\* the path string WalkDir hands to its callback: the root as given, a joined
\* (clean) path below it
WalkName(start, k) == IF k = TrimSep(start) THEN start ELSE k

\* WalkDir(start, fn) reaches k: k is in the tree below start and fn returned
\* SkipDir for no directory above k
Visited(fsys, start, k, hidden, byBase) ==
  /\ k \in DOMAIN fsys
  /\ Under(k, TrimSep(start))
  /\ \A d \in DOMAIN fsys :
       (IsDir(fsys, d) /\ Under(d, TrimSep(start)) /\ Under(k, d) /\ d # k)
         => ~(hidden /\ IF byBase THEN HiddenDirName(WalkName(start, d))
                                    ELSE HiddenSeg(WalkName(start, d)))

\* filepath.WalkDir(start, watchThis): the directories watcher.Add is called on
WatchThisWalk(fsys, start, hidden) ==
  {d \in DOMAIN fsys : /\ IsDir(fsys, d)
                       /\ Visited(fsys, start, d, hidden, FALSE)
                       /\ ~(hidden /\ HiddenSeg(WalkName(start, d)))}

\* os.ReadDir(path) inside filepath.WalkDir: the entries of the directory as they
\* are now, sorted by name, each with the kind it has now; none when the directory
\* cannot be read
ReadDir(fsys, path) ==
  IF ~IsDir(fsys, path) THEN <<>>
  ELSE LET here == SelectSeq(WalkOrder, LAMBDA k : k \in DOMAIN fsys /\ k # path
                                                   /\ Parent(k) = path)
       IN  [j \in 1..Len(here) |-> [path |-> here[j], dir |-> IsDir(fsys, here[j])]]

\* filepath.WalkDir(start, addDir) from the entries it has still to visit up to its
\* next call of addFile: a directory is passed over when it is hidden and is read
\* when the walk comes to it, and whatever is not a directory is handed to addFile.
\* The result is what is left to visit, with the entry to add first.
RECURSIVE AddDirWalk(_, _, _)
AddDirWalk(fsys, todo, hidden) ==
  IF todo = <<>> THEN <<>>
  ELSE IF ~Head(todo).dir THEN todo
  ELSE IF hidden /\ HiddenSeg(Head(todo).path) THEN AddDirWalk(fsys, Tail(todo), hidden)
  ELSE AddDirWalk(fsys, ReadDir(fsys, Head(todo).path) \o Tail(todo), hidden)

\* filepath.WalkDir(start, watchThis) from the entries it has still to visit up to
\* its next call of watcher.Add: what is not a directory is passed over and a hidden
\* directory is skipped. The result is what is left to visit, with the directory
\* to register first.
WatchWalkRootOnly(todo, hidden) == <<>>
WatchWalkTo(todo, hidden) ==
  LET next == {j \in 1..Len(todo) : todo[j].dir /\ ~(hidden /\ HiddenSeg(todo[j].path))}
  IN  IF next = {} THEN <<>>
      ELSE SubSeq(todo, CHOOSE j \in next : \A k \in next : j <= k, Len(todo))

\* watcher.Add(path) returns an error: the environment refuses the watch (the
\* limit of watches is reached), or nothing has the name any more
WatcherAddFails(fsys, path, refused) == refused \/ path \notin DOMAIN fsys

\* filePathWalkDir(root): the files it returns, in order, and its error: the
\* callback is handed no entry (info == nil) when os.Lstat(root) fails, which it
\* does when nothing has the name, and when the name is written with a trailing
\* separator and is not a directory
ErrCannotAccess == <<"cannot", "access", "for", "crawling">>
filePathWalkDir(fsys, root, hidden) ==
  IF \/ TrimSep(root) \notin DOMAIN fsys
     \/ root # TrimSep(root) /\ ~IsDir(fsys, TrimSep(root))
  THEN [files |-> <<>>, err |-> ErrCannotAccess]
  ELSE [files |-> SelectSeq(WalkOrder, LAMBDA k : /\ IsFile(fsys, k)
                                                  /\ Visited(fsys, root, k, hidden, TRUE)
                                                  /\ ~(hidden /\ HiddenFileName(k))),
        err |-> NoErr]

\* ------------------------------------------------------------- environment
\* a filesystem notification reaches the watcher that watches the entry's directory
Post(name, op) ==
  /\ events' = [i \in DOMAIN events |->
                  IF wat[i].pc # "off" /\ Parent(name) \in wat[i].watches
                  THEN Append(events[i], [Name |-> name, Op |-> op, id |-> posted + 1])
                  ELSE events[i]]
  /\ posted' = posted + 1

FsCreate(k, v) ==
  /\ fsops > 0 /\ k \notin DOMAIN fs /\ IsDir(fs, Parent(k))
  /\ fs' = [x \in DOMAIN fs \cup {k} |-> IF x = k THEN v ELSE fs[x]]
  /\ fsops' = fsops - 1
  /\ Post(k, "Create")
  /\ UNCHANGED <<cfgVars, filestore, DirKeys, remoteVars, faults, dbVars, main, wat, af, calls,
                 applied, polls, dbop>>

FsWrite(k, v) ==
  /\ fsops > 0 /\ IsFile(fs, k)
  /\ fs' = [fs EXCEPT ![k] = v]
  /\ fsops' = fsops - 1
  /\ Post(k, "Write")
  /\ UNCHANGED <<cfgVars, filestore, DirKeys, remoteVars, faults, dbVars, main, wat, af, calls,
                 applied, polls, dbop>>

\* history of the watchers: of what was below the directory of the event at hand
\* when it was taken, that which has been there ever since
StillHad(fsys) == [i \in DOMAIN wat |-> [wat[i] EXCEPT !.had = @ \cap DOMAIN fsys]]

FsRemove(k) ==
  /\ fsops > 0 /\ IsFile(fs, k)
  /\ fs' = [x \in DOMAIN fs \ {k} |-> fs[x]]
  /\ fsops' = fsops - 1
  /\ Post(k, "Remove")
  /\ wat' = StillHad(fs')
  /\ UNCHANGED <<cfgVars, filestore, DirKeys, remoteVars, faults, dbVars, main, af, calls,
                 applied, polls, dbop>>

\* a file is saved by removing it and creating it anew, before the watcher looks
FsReplace(k, v) ==
  /\ fsops > 0 /\ IsFile(fs, k)
  /\ fs' = [fs EXCEPT ![k] = v]
  /\ fsops' = fsops - 1
  /\ events' = [i \in DOMAIN events |->
                  IF wat[i].pc # "off" /\ Parent(k) \in wat[i].watches
                  THEN events[i] \o <<[Name |-> k, Op |-> "Remove", id |-> posted + 1],
                                      [Name |-> k, Op |-> "Create", id |-> posted + 2]>>
                  ELSE events[i]]
  /\ posted' = posted + 2
  /\ UNCHANGED <<cfgVars, filestore, DirKeys, remoteVars, faults, dbVars, main, wat, af, calls,
                 applied, polls, dbop>>

\* a directory is moved into the tree with files and directories already in it
FsMoveIn(d, S) ==
  /\ fsops > 0 /\ d \notin DOMAIN fs /\ IsDir(fs, Parent(d))
  /\ \A k \in S : Parent(k) = d \/ Parent(k) \in S \cap NestedDirs
  /\ fs' = [x \in DOMAIN fs \cup {d} \cup S |->
              IF x = d \/ x \in S \cap NestedDirs THEN DirEnt
              ELSE IF x \in S THEN V1 ELSE fs[x]]
  /\ fsops' = fsops - 1
  /\ Post(d, "Create")
  /\ UNCHANGED <<cfgVars, filestore, DirKeys, remoteVars, faults, dbVars, main, wat, af, calls,
                 applied, polls, dbop>>

\* a directory is moved out of the tree, with everything in it
FsMoveOut(d) ==
  /\ fsops > 0 /\ IsDir(fs, d)
  /\ fs' = [x \in {y \in DOMAIN fs : ~Under(y, d)} |-> fs[x]]
  /\ fsops' = fsops - 1
  /\ Post(d, "Rename")
  /\ wat' = StillHad(fs')
  /\ UNCHANGED <<cfgVars, filestore, DirKeys, remoteVars, faults, dbVars, main, af, calls,
                 applied, polls, dbop>>

\* ------------------------------------------------------------ the watcher
\* dirSplit[len(dirSplit)-2]
DirName(dir) == LET sp == Split(dir, SEP) IN sp[Len(sp) - 1]

\* s[n:]: the rest of s after its first n characters; it has no value when s is
\* shorter than n (the code panics: slice bounds out of range)
SliceFrom(s, n) == CHOOSE t \in {SubSeq(s, n + 1, Len(s))} : n <= Len(s)

\* mfsPath := fname[len(dir):]; dirName + "/" + mfsPath
MfsPathOf(dir, fname) == DirName(dir) \o <<"/">> \o SliceFrom(fname, Len(dir))

\* the event the loop takes from watcher.Events, and what stays queued
NewestEvent(q) == Last(q)
NextEvent(q) == Head(q)
RestEvents(q) == Tail(q)

\* the closure addFile(fname, overwrite) up to its call of AddFile: the watcher's
\* record and the call
StartAdd(w, dk, fname, overwrite) ==
  LET parentDir == Join(Front(Split(fname, SEP)), SEP)
      makeDir == parentDir \notin w.localDirs
  IN  [w |-> [w EXCEPT !.pc = "adding", !.name = fname, !.overwrite = overwrite,
                       !.localDirs = @ \cup {parentDir}],
       f |-> Call(fname, MfsPathOf(dk.Dir, fname), dk.Nocopy, makeDir, overwrite)]

\* the filters of the event loop: an event without a name, of a hidden entry, or of
\* a name with an ignored suffix is passed over
Filtered(name) ==
  \/ Len(name) = 0
  \/ IgnoreHidden /\ HiddenSeg(name)
  \/ IgnoredSuffix(Ignore, name)

\* os.Stat(event.Name) in the cases that call it
Stat(fsys, name) ==
  IF name \notin DOMAIN fsys THEN "gone" ELSE IF IsDir(fsys, name) THEN "dir" ELSE "file"

\* _, err := os.Stat(event.Name); if err == nil { continue } of a remove or rename
StillThereNever(fsys, name) == FALSE
StillThere(fsys, name) == name \in DOMAIN fsys

\* the overwrite argument of addFile(event.Name, true) for a create or a write
OverwriteOnEventOff == FALSE
OverwriteOnEvent == TRUE

\* the environment may refuse a watch while it has failures left to inject
WatchRefusals == {FALSE} \cup (IF faults > 0 THEN {TRUE} ELSE {})

\* watchThis on the directory the walk has come to: watcher.Add, whose error ends
\* the walk; after it the walk reads the directory and goes on to the next
\* directory it has to register (a directory that fails to be read is handed to
\* watchThis once more, with the same result, and has no entries)
WatchThisStep(fsys, w, refused, hidden) ==
  LET e == Head(w.todo) IN
  IF WatcherAddFails(fsys, e.path, refused) THEN [w EXCEPT !.todo = <<>>, !.werr = TRUE]
  ELSE [w EXCEPT !.watches = @ \cup {e.path},
                 !.todo = WatchWalkTo(ReadDir(fsys, e.path) \o Tail(@), hidden)]

\* filepath.WalkDir(event.Name, addDir), or its rest, up to the next addFile: the
\* call of AddFile begins, or the loop goes on to the next event
AddDirFrom(i, w, todo) ==
  \E left \in {AddDirWalk(fs, todo, IgnoreHidden)} :
    IF left = <<>>
    THEN /\ wat' = [wat EXCEPT ![i] = [w EXCEPT !.pc = "select", !.todo = <<>>]]
         /\ af' = [af EXCEPT ![i] = NoCall]
    ELSE \E s \in {StartAdd([w EXCEPT !.todo = Tail(left)], DirKeys[i],
                             Head(left).path, FALSE)} :
             wat' = [wat EXCEPT ![i] = s.w] /\ af' = [af EXCEPT ![i] = s.f]

\* one more directory of filepath.WalkDir(event.Name, watchThis); an error ends the
\* walk and is logged, and when the walk ends without one, os.Lstat(event.Name)
\* and the walk with addDir follow (what is no directory any more, or is gone, is
\* handed to addFile)
WatchOn(i, w) ==
  \E refused \in WatchRefusals :
  \E w2 \in {WatchThisStep(fs, w, refused, IgnoreHidden)} :
    /\ faults' = IF refused THEN faults - 1 ELSE faults
    /\ IF w2.werr
       THEN wat' = [wat EXCEPT ![i] = [w2 EXCEPT !.pc = "select"]] /\ UNCHANGED af
       ELSE IF w2.todo # <<>>
       THEN wat' = [wat EXCEPT ![i] = [w2 EXCEPT !.pc = "watching"]] /\ UNCHANGED af
       ELSE AddDirFrom(i, w2, <<[path |-> w2.ev, dir |-> IsDir(fs, w2.ev)]>>)

\* the event loop takes one event: the filters, and the switch on event.Op up to
\* the first remote call or, for a create of a directory, up to the walk's second
\* directory: os.Stat, os.Lstat and watcher.Add of the directory itself, and when
\* it has no directory to register below it, the walk with addDir up to its first
\* file. For a remove or rename of a path that is gone, the watch and the entry of
\* the directory cache are dropped here, before the request. History: what is
\* below the event's path at this moment.
W_Event(i) ==
  /\ wat[i].pc = "select" /\ events[i] # <<>>
  /\ \E ev \in {NextEvent(events[i])} :
     \E skip \in {Filtered(ev.Name)} :
     \E w \in {[wat[i] EXCEPT !.id = ev.id, !.op = ev.Op, !.ev = ev.Name, !.name = ev.Name,
                              !.todo = <<>>, !.werr = FALSE,
                              !.had = {k \in DOMAIN fs : Under(k, ev.Name)},
                              !.stat = IF skip \/ ev.Op = "Write" THEN ""
                                       ELSE Stat(fs, ev.Name)]} :
     /\ events' = [events EXCEPT ![i] = RestEvents(@)]
     /\ calls' = [calls EXCEPT ![i] = <<>>]
     /\ IF skip THEN wat' = [wat EXCEPT ![i] = w] /\ UNCHANGED <<af, faults>>
        ELSE IF (ev.Op = "Create" /\ IsFile(fs, ev.Name)) \/ ev.Op = "Write"
        THEN \E s \in {StartAdd(w, DirKeys[i], ev.Name, OverwriteOnEvent)} :
             wat' = [wat EXCEPT ![i] = s.w] /\ af' = [af EXCEPT ![i] = s.f]
                                           /\ UNCHANGED faults
        ELSE IF ev.Op = "Create" /\ IsDir(fs, ev.Name)
        THEN WatchOn(i, [w EXCEPT !.todo = <<[path |-> ev.Name, dir |-> TRUE]>>])
        ELSE IF ev.Op \in {"Remove", "Rename"} /\ ~StillThere(fs, ev.Name)
        THEN wat' = [wat EXCEPT ![i] = [w EXCEPT !.pc = "remove",
                                                 !.watches = @ \ {ev.Name},
                                                 !.localDirs = @ \ {ev.Name}]]
             /\ UNCHANGED <<af, faults>>
        ELSE wat' = [wat EXCEPT ![i] = w] /\ UNCHANGED <<af, faults>>
  /\ UNCHANGED <<cfgVars, filestore, DirKeys, fs, remoteVars, fsops, dbVars, main,
                 posted, applied, polls, dbop>>

\* filepath.WalkDir(event.Name, watchThis) comes to its next directory, on the
\* tree as it is now
W_Watch(i) ==
  /\ wat[i].pc = "watching"
  /\ WatchOn(i, wat[i])
  /\ UNCHANGED <<cfgVars, filestore, DirKeys, fs, remoteVars, fsops, dbVars, main, events,
                 calls, posted, applied, polls, dbop>>

\* the closure addFile after AddFile returned: the store update, and then the walk
\* goes on from where it stood, over the tree as it is now, to its next file, or
\* the loop goes on to the next event
W_Hash(i) ==
  /\ wat[i].pc = "adding" /\ af[i].pc = "ret"
  /\ UseDB => HashLock = NoProc
  /\ \E w \in {wat[i]} : \E f \in {af[i]} : \E fh0 \in {HashesGet(Hashes, w.name)} :
     \E fh \in {Recalculate(IF fh0.isnil THEN NewFH ELSE fh0, fs, w.name,
                            DirKeys[i].DontHash)} :
     \E u \in {Update(DB, fh)} :
     /\ IF UseDB
        THEN /\ Hashes' = [k \in DOMAIN Hashes \cup {w.name} |->
                             IF k = w.name THEN fh ELSE Hashes[k]]
             /\ DB' = u.db
             /\ dbop' = [op |-> "put", n |-> 0, path |-> w.name, fh |-> fh,
                         dontHash |-> DirKeys[i].DontHash, ret |-> u.ret,
                         before |-> DB, beforeH |-> Hashes, rerr |-> f.rerr]
        ELSE UNCHANGED <<DB, Hashes, dbop>>
     /\ applied' = Append(applied, [p |-> i, run |-> main.run, id |-> w.id, name |-> w.name, op |-> w.op,
                                    act |-> "add", overwrite |-> w.overwrite, to |-> f.to,
                                    cid |-> f.rhash, hash |-> f.hash, err |-> f.rerr,
                                    inj |-> f.inj, mfs |-> mfs])
     /\ \E left \in {AddDirWalk(fs, w.todo, IgnoreHidden)} :
        IF left = <<>>
        THEN /\ wat' = [wat EXCEPT ![i].pc = "select", ![i].todo = <<>>]
             /\ af' = [af EXCEPT ![i] = NoCall]
             /\ UNCHANGED calls
        ELSE \E s \in {StartAdd([w EXCEPT !.todo = Tail(left)], DirKeys[i],
                                 Head(left).path, FALSE)} :
                 /\ wat' = [wat EXCEPT ![i] = s.w]
                 /\ af' = [af EXCEPT ![i] = s.f]
                 /\ calls' = [calls EXCEPT ![i] = <<>>]
  /\ UNCHANGED <<cfgVars, filestore, DirKeys, fs, remoteVars, faults, fsops, HashLock, main, events,
                 posted, polls>>

\* a remove or rename of a path that is gone: the watch and the directory cache are
\* dropped and the entry is removed from the MFS
W_Remove(i) ==
  /\ wat[i].pc = "remove"
  /\ LET w == wat[i]
         to == MfsPathOf(DirKeys[i].Dir, w.name)
     IN  \E inj \in Inject("rm") :
         LET err == IF inj # NoErr THEN inj ELSE MfsRmErr(mfs, to) IN
         /\ faults' = Spend(inj)
         /\ calls' = Logged(i, "rm", to, err)
         /\ mfs' = IF err = NoErr THEN MfsRm(mfs, to) ELSE mfs
         /\ wat' = [wat EXCEPT ![i] = [w EXCEPT !.pc = "dbdel", !.err = err,
                                                !.inj = IF inj = NoErr THEN 0 ELSE 1]]
  /\ UNCHANGED <<cfgVars, filestore, DirKeys, fs, keys, ipns, pins, fsops, dbVars, main, events, af,
                 posted, applied, polls, dbop>>

\* ... and its records are deleted from the store
W_DbDel(i) ==
  /\ wat[i].pc = "dbdel"
  /\ UseDB => HashLock = NoProc
  /\ LET w == wat[i]
         d == Delete(DB, Hashes, HashesGet(Hashes, w.name), w.name)
     IN
     /\ IF UseDB
        THEN /\ DB' = d.db
             /\ Hashes' = d.hashes
             /\ dbop' = [op |-> "delete", n |-> 0, path |-> w.name, fh |-> NilFH,
                         ret |-> FALSE, before |-> DB, beforeH |-> Hashes, rerr |-> w.err]
        ELSE UNCHANGED <<DB, Hashes, dbop>>
     /\ applied' = Append(applied, [p |-> i, run |-> main.run, id |-> w.id, name |-> w.name, op |-> w.op,
                                    act |-> "remove", overwrite |-> FALSE,
                                    to |-> MfsPathOf(DirKeys[i].Dir, w.name),
                                    cid |-> Nil, hash |-> Nil, err |-> w.err,
                                    inj |-> w.inj, mfs |-> mfs])
     /\ wat' = [wat EXCEPT ![i].pc = "select"]
  /\ UNCHANGED <<cfgVars, filestore, DirKeys, fs, remoteVars, faults, fsops, HashLock, main, events,
                 af, posted, calls, polls>>


\* ------------------------------------------------- the watcher specification
\* One directory, already registered and in sync, its watcher running, under the
\* content strategy or the size+time strategy; the environment changes the tree and
\* the watcher handles the notifications.
KeySpace == "ipfs-sync."
DK == [ID |-> "k", Dir |-> RDir, Nocopy |-> FALSE, DontHash |-> FALSE, Pin |-> FALSE,
       Estuary |-> FALSE, CID |-> Nil, MFSPath |-> Nil]
NewWatcher == [pc |-> "off", id |-> 0, op |-> "", ev |-> Nil, name |-> Nil, stat |-> "",
               overwrite |-> FALSE, todo |-> <<>>, had |-> {}, werr |-> FALSE, localDirs |-> {},
               watches |-> {},
               err |-> NoErr, inj |-> 0]
Mfs0 == (<<"w">> :> "dir")
\* the WatchDog goroutine: its position, the index of the DirKey at hand, the keys
\* ListKeys returned, the scan's hashmap and directory cache, the files AddDir still
\* has to add, the snapshot id at hand and the depth of its UpdatePin calls; history: the number of
\* the run, and the fault budget and the event count when the run started
MainIdle == [pc |-> "init", i |-> 0, keys |-> {}, hashmap |-> <<>>, cur |-> Nil,
             localDirs |-> {}, files |-> <<>>, fCID |-> Nil, depth |-> 0,
             run |-> 1, faults0 |-> 0, posted0 |-> 0]

\* the state of a run whose startup has completed and whose watcher is running
\* (held: what the node has pinned besides the directory)
InitRunning(nfaults, nfsops, hidden, ignore, usedb, key, held, dk) ==
  /\ IgnoreHidden = hidden /\ Ignore = ignore /\ UseDB = usedb /\ EstuaryAPIKey = key
  /\ DirKeys = << [dk EXCEPT !.CID = MfsCid(Mfs0, <<"w">>), !.MFSPath = <<"w">>] >>
  /\ fs = (R :> DirEnt)
  /\ mfs = Mfs0 /\ keys = {<<KeySpace, "k">>}
  /\ ipns = (<<KeySpace, "k">> :> MfsCid(Mfs0, <<"w">>))
  /\ pins = held \cup (IF dk.Pin THEN {MfsCid(Mfs0, <<"w">>)} ELSE {})
  /\ faults = nfaults /\ fsops = nfsops
  /\ DB = <<>> /\ Hashes = <<>> /\ HashLock = NoProc
  /\ main = [MainIdle EXCEPT !.pc = "sleep"]
  /\ wat = << [NewWatcher EXCEPT !.pc = "select", !.watches = {R}] >>
  /\ events = << <<>> >>
  /\ af = [p \in {0, 1} |-> NoCall]
  /\ posted = 0 /\ calls = [p \in {0, 1} |-> <<>>] /\ applied = <<>> /\ polls = <<>>
  /\ dbop = NoOp
  /\ filestore = [NoScans EXCEPT !.cf = [p \in Procs |-> NoClean], !.most = MaxAnswer]

InitWatch ==
  \E dontHash \in BOOLEAN :
    InitRunning(0, MaxFsOps, TRUE, << <<"p">> >>, TRUE, Nil, {},
                [DK EXCEPT !.DontHash = dontHash])

NextWatch ==
  \/ \E k \in UFiles, v \in {V1} : FsCreate(k, v)
  \/ \E k \in UFiles, v \in {V1, V3} : FsWrite(k, v)
  \/ \E k \in UFiles : FsRemove(k)
  \/ \E d \in UDirs, S \in SUBSET UFiles : FsMoveIn(d, S)
  \/ \E d \in UDirs : FsMoveOut(d)
  \/ \E i \in 1..Len(DirKeys) : W_Event(i)
  \/ \E i \in 1..Len(DirKeys) : W_Hash(i)
  \/ \E i \in 1..Len(DirKeys) : W_Remove(i)
  \/ \E i \in 1..Len(DirKeys) : W_DbDel(i)
  \/ \E p \in Procs : AF_Add(p)
  \/ \E p \in Procs : AF_MkDir(p)
  \/ \E p \in Procs : AF_Rm(p)
  \/ \E p \in Procs : AF_Cp(p)

SpecWatch == InitWatch /\ [][NextWatch]_vars


\* ---------------------------------------------------- the apply specification
\* The same watcher on one file, with a remote node that may fail: every request
\* may time out, files/cp may report a dangling reference.
InitApply == InitRunning(MaxFaults, MaxFsOps, FALSE, <<>>, TRUE, Nil, {CidOf(V3.c)}, DK)

NextApply ==
  \/ \E v \in {V1, V3} : FsCreate(FA, v)
  \/ \E v \in {V1, V3} : FsWrite(FA, v)
  \/ FsRemove(FA)
  \/ \E i \in 1..Len(DirKeys) : W_Event(i)
  \/ \E i \in 1..Len(DirKeys) : W_Hash(i)
  \/ \E i \in 1..Len(DirKeys) : W_Remove(i)
  \/ \E i \in 1..Len(DirKeys) : W_DbDel(i)
  \/ \E p \in Procs : AF_Add(p)
  \/ \E p \in Procs : AF_MkDir(p)
  \/ \E p \in Procs : AF_Rm(p)
  \/ \E p \in Procs : AF_Cp(p)
  \/ \E p \in Procs : AF_Recover(p)
  \/ \E p \in Procs : RC_Refs(p)
  \/ \E p \in Procs : RC_Decode(p)
  \/ \E p \in Procs : RB_BlockRm(p)
  \/ \E p \in Procs : RB_PinRm(p)

SpecApply == InitApply /\ [][NextApply]_vars


\* ----------------------------------------------------- the tree specification
\* The same watcher, with or without the hidden filter: the directory "/w/d" is
\* moved in with files and directories in it, files are created, saved anew or
\* removed below it and it is moved out again while the watcher handles the
\* notifications; a request and the registration of a watch may fail, and the
\* node holds a pin on the content the files are saved with.
MaxTreeOps == 2     \* filesystem mutations in the tree specification
MaxTreeFaults == 1  \* failures injected in the tree specification
TreeEntries == {FDB, FDP, FDH, DE, FDEB, DDC, FDCB}

InitTree ==
  \E hidden \in BOOLEAN :
    InitRunning(MaxTreeFaults, MaxTreeOps, hidden, << <<"p">> >>, TRUE, Nil, {CidOf(V3.c)}, DK)

NextTree ==
  \/ \E S \in SUBSET TreeEntries : FsMoveIn(DD, S)
  \/ \E k \in {FDEB, FDCB} : FsCreate(k, V3)
  \/ \E k \in {FDB, FDEB} : FsReplace(k, V3)
  \/ \E k \in {FDB, FDEB} : FsRemove(k)
  \/ FsMoveOut(DD)
  \/ \E i \in 1..Len(DirKeys) : W_Event(i)
  \/ \E i \in 1..Len(DirKeys) : W_Watch(i)
  \/ \E i \in 1..Len(DirKeys) : W_Hash(i)
  \/ \E i \in 1..Len(DirKeys) : W_Remove(i)
  \/ \E i \in 1..Len(DirKeys) : W_DbDel(i)
  \/ \E p \in Procs : AF_Add(p)
  \/ \E p \in Procs : AF_MkDir(p)
  \/ \E p \in Procs : AF_Rm(p)
  \/ \E p \in Procs : AF_Cp(p)
  \/ \E p \in Procs : AF_Recover(p)
  \/ \E p \in Procs : RC_Refs(p)
  \/ \E p \in Procs : RC_Decode(p)
  \/ \E p \in Procs : RB_BlockRm(p)
  \/ \E p \in Procs : RB_PinRm(p)

SpecTree == InitTree /\ [][NextTree]_vars


\* ------------------------------------------------------------------- claims
Count(log, op) == Cardinality({j \in 1..Len(log) : log[j].op = op})

\* C1 (as claimed): within one AddFile call a dangling-reference error on files/cp
\* triggers at most one recovery and the files/cp request is issued at most twice,
\* whatever the remote node answers.
C1_OneRecoveryOneRetry ==
  \A p \in Procs : Count(calls[p], "recover") <= 1 /\ Count(calls[p], "cp") <= 2

\* C2 (as claimed): a store operation that changes the store follows a remote
\* operation for that path that succeeded.
C2_StoreOnlyAfterSuccess ==
  (dbop.op \in {"put", "delete"} /\ DB # dbop.before) => dbop.rerr = NoErr

\* C10: a create or modify notification applied twice in a row to a file whose
\* content is the same: when the first apply succeeded and the remote node fails no
\* request of the second, the second succeeds too, reports the same content id, and
\* leaves the MFS as the first left it, with that content id at the mapped path.
SameIntentTwice(a1, a2) ==
  /\ a1.p = a2.p /\ a1.name = a2.name
  /\ a1.act = "add" /\ a2.act = "add" /\ a1.overwrite /\ a2.overwrite
  /\ a1.err = NoErr /\ a2.inj = 0
  /\ a1.cid # Nil /\ a2.hash = a1.cid

C10_ApplyTwiceIdempotent ==
  \A j \in 1..(Len(applied) - 1) :
    LET a1 == applied[j]
        a2 == applied[j + 1]
    IN  SameIntentTwice(a1, a2) =>
          /\ a2.err = NoErr
          /\ a2.cid = a1.cid
          /\ a2.mfs = a1.mfs
          /\ a2.to \in DOMAIN a2.mfs /\ a2.mfs[a2.to] = a1.cid

C10_Witness ==
  \E j \in 1..(Len(applied) - 1) :
    /\ SameIntentTwice(applied[j], applied[j + 1])
    /\ applied[j].op = "Create" /\ applied[j + 1].op = "Write"
    /\ applied[j + 1].mfs = applied[j].mfs


\* the requests of the first attempt of an AddFile call: those before its recovery
FirstAttempt(log) ==
  IF \E j \in 1..Len(log) : log[j].op = "recover"
  THEN SubSeq(log, 1, (CHOOSE j \in 1..Len(log) :
                         /\ log[j].op = "recover"
                         /\ \A k \in 1..(j - 1) : log[k].op # "recover") - 1)
  ELSE log
\* every request a of the log is made before every request b
Before(log, a, b) ==
  \A j, k \in 1..Len(log) : (log[j].op = a /\ log[k].op = b) => j < k
Failed(log, op) == \E j \in 1..Len(log) : log[j].op = op /\ log[j].err # NoErr
\* an earlier apply of this watcher has placed a file under the same parent
PlacedBefore(p, name) ==
  \E j \in 1..Len(applied) :
    applied[j].p = p /\ applied[j].act = "add" /\ Parent(applied[j].name) = Parent(name)

AddReturnedErr(log) ==
  \E j \in 1..Len(log) : log[j].op = "add" /\ log[j].err \notin {NoErr, ErrNodeAdd}
\* the node answered the upload of the log with an error object
AddRefused(log) == \E j \in 1..Len(log) : log[j].op = "add" /\ log[j].err = ErrNodeAdd

AppliesOf(p) ==
  {j \in 1..Len(applied) : applied[j].p = p /\ applied[j].id = wat[p].id
                            /\ applied[j].run = main.run}
\* the event the watcher p took last is a write, or a create of what os.Stat found
\* to be a plain file, and the filters let it pass
FileEvent(p) ==
  /\ wat[p].id > 0 /\ ~Filtered(wat[p].ev)
  /\ wat[p].op = "Write" \/ (wat[p].op = "Create" /\ wat[p].stat = "file")

\* C23: a create event of a plain file and a write event that pass the filters each
\* lead to exactly one call of AddFile for the event's path, with overwrite set: no
\* apply is recorded while it runs and exactly one once it has returned, and an apply
\* that returned no error has left the content id it uploaded at the mapped path.
C23_EventAppliesOnceWithOverwrite ==
  \A p \in 1..Len(DirKeys) :
    FileEvent(p) =>
      /\ wat[p].pc \in {"adding", "select"}
      /\ wat[p].pc = "adding" =>
            /\ AppliesOf(p) = {}
            /\ af[p].from = wat[p].name /\ af[p].overwrite
            /\ af[p].to = MfsPathOf(DirKeys[p].Dir, wat[p].name)
      /\ wat[p].pc = "select" =>
            /\ Cardinality(AppliesOf(p)) = 1
            /\ \A j \in AppliesOf(p) :
                 LET a == applied[j] IN
                 /\ a.name = wat[p].name /\ a.act = "add" /\ a.overwrite
                 /\ a.to = MfsPathOf(DirKeys[p].Dir, wat[p].name)
                 /\ a.err = NoErr => (a.to \in DOMAIN a.mfs /\ a.mfs[a.to] = a.hash)

\* a write event was applied to a path whose remote entry held another content id,
\* and the entry holds the new one
C23_Witness ==
  \E p \in 1..Len(DirKeys) :
    /\ FileEvent(p) /\ wat[p].pc = "select" /\ wat[p].op = "Write"
    /\ \E j \in AppliesOf(p) : \E k \in 1..(j - 1) :
         /\ applied[k].to = applied[j].to /\ applied[k].err = NoErr
         /\ applied[k].mfs[applied[k].to] # applied[j].hash
         /\ applied[j].err = NoErr /\ mfs[applied[j].to] = applied[j].hash

\* the watcher p takes a remove or rename event that passes the filters, of a path
\* that os.Stat still finds
TakesFalseRemove(p) ==
  /\ wat'[p].id # wat[p].id /\ ~Filtered(wat'[p].ev)
  /\ wat'[p].op \in {"Remove", "Rename"} /\ wat'[p].stat # "gone"

\* C25: a remove or rename event of a path that still exists when the watcher
\* stats it changes nothing: no request is made, no watch and no entry of the
\* directory cache is dropped, the store and its mirror stay as they are, and the
\* watcher waits for the next event.
C25_FalseRemoveChangesNothing ==
  [][\A p \in 1..Len(DirKeys) :
       TakesFalseRemove(p) =>
         /\ calls'[p] = <<>> /\ af' = af /\ applied' = applied
         /\ mfs' = mfs /\ pins' = pins /\ ipns' = ipns
         /\ wat'[p].watches = wat[p].watches /\ wat'[p].localDirs = wat[p].localDirs
         /\ DB' = DB /\ Hashes' = Hashes /\ HashLock' = HashLock
         /\ wat'[p].pc = "select"
    ]_vars

\* the watcher has passed over a remove event of a file that was created again, with
\* the file's record in the store, its entry in the MFS and the watch of its directory
C25_Witness ==
  \E p \in 1..Len(DirKeys) :
    /\ wat[p].pc = "select" /\ wat[p].op = "Remove" /\ wat[p].stat = "file"
    /\ ~Filtered(wat[p].ev) /\ AppliesOf(p) = {}
    /\ wat[p].ev \in DOMAIN DB /\ MfsPathOf(DirKeys[p].Dir, wat[p].ev) \in DOMAIN mfs
    /\ Parent(wat[p].ev) \in wat[p].watches

\* the watcher p has handled, to its end, a remove or rename event that passes the
\* filters, of a path that os.Stat no longer found
RemoveHandled(p) ==
  /\ wat[p].pc = "select" /\ wat[p].id > 0 /\ ~Filtered(wat[p].ev)
  /\ wat[p].op \in {"Remove", "Rename"} /\ wat[p].stat = "gone"
\* the store or its mirror holds a record, of content or of size+time, for the path k
HasRecord(k) == k \in DOMAIN DB \/ (TS \o k) \in DOMAIN DB \/ k \in DOMAIN Hashes

\* C26 (as claimed): once the watcher has handled the removal of a path that is gone,
\* the store and its mirror hold no record, of content or of size+time, for the path
\* or for a path inside it, under either strategy.
C26_RemoveLeavesNoRecord ==
  \A p \in 1..Len(DirKeys) :
    RemoveHandled(p) =>
      \A k \in UFiles \cup UDirs : (k = wat[p].ev \/ Inside(k, wat[p].ev)) => ~HasRecord(k)

\* a segment of the path below the watch root begins with the hidden marker
HiddenBelowRoot(dir, path) ==
  LET sp == Split(SubSeq(path, Len(dir) + 1, Len(path)), SEP)
  IN  \E j \in 1..Len(sp) : Len(sp[j]) > 0 /\ sp[j][1] = DOT

\* the event the watcher p took last is a create of what os.Stat found to be a
\* directory, and the filters let it pass
DirEvent(p) ==
  wat[p].id > 0 /\ ~Filtered(wat[p].ev) /\ wat[p].op = "Create" /\ wat[p].stat = "dir"
\* of what has been below D since the event was taken: the directories that no
\* hidden segment below D leads to, and the files that neither the ignore list nor
\* the hidden filter excludes
DirsToWatch(fsys, had, D) ==
  {d \in had : IsDir(fsys, d) /\ ~(IgnoreHidden /\ HiddenBelowRoot(D, d))}
FilesToAdd(fsys, had, D) ==
  {k \in had : IsFile(fsys, k) /\ ~IgnoredSuffix(Ignore, k)
                /\ ~(IgnoreHidden /\ HiddenBelowRoot(D, k))}
\* the watcher p has handled, to its end, the event it took last
Handled(p) == wat[p].pc = "select"

\* C24 (as claimed): once a create event of a directory D that passes the filters is
\* handled, D and every directory below it that is not hidden are watched, and
\* every file that was below D already, and is neither ignored nor hidden, has been
\* applied as a create (directories and files that are still there).
C24_DirCreateAlwaysWatchesAndAdds ==
  \A p \in 1..Len(DirKeys) :
    (DirEvent(p) /\ Handled(p)) =>
      /\ DirsToWatch(fs, wat[p].had, wat[p].ev) \subseteq wat[p].watches
      /\ FilesToAdd(fs, wat[p].had, wat[p].ev)
           \subseteq {applied[j].name : j \in AppliesOf(p)}

\* C24 (amended): for a create event of a directory D that passes the filters, a
\* watch is only ever added while no path has been applied for the event and no
\* request of an apply has been made, and no watch is dropped; every path applied
\* is applied as a create without force-overwrite; when a registration fails the
\* event is handled at once, and no path is applied for it; and when the event is
\* handled without such a failure, D and every directory that has been below D
\* since the event was taken and is not hidden are watched, and every file that has
\* been below D since then, and is neither ignored nor hidden, has been applied.
C24_DirCreateWatchesThenAdds ==
  [][\A p \in 1..Len(DirKeys) :
       DirEvent(p)' =>
         /\ wat'[p].id = wat[p].id => wat[p].watches \subseteq wat'[p].watches
         /\ (wat'[p].id # wat[p].id \/ wat'[p].watches # wat[p].watches) =>
               AppliesOf(p)' = {} /\ calls'[p] = <<>>
         /\ \A j \in AppliesOf(p)' :
               applied'[j].op = "Create" /\ applied'[j].act = "add" /\ ~applied'[j].overwrite
         /\ wat'[p].werr => Handled(p)' /\ AppliesOf(p)' = {} /\ af'[p] = NoCall
         /\ (Handled(p)' /\ ~wat'[p].werr) =>
               /\ wat'[p].todo = <<>>
               /\ DirsToWatch(fs', wat'[p].had, wat'[p].ev) \subseteq wat'[p].watches
               /\ FilesToAdd(fs', wat'[p].had, wat'[p].ev)
                    \subseteq {applied'[j].name : j \in AppliesOf(p)'}
    ]_vars

\* a directory came with a file, a directory below it and a file in that: every
\* registration succeeded, both directories are watched and both files were applied
C24_Witness ==
  \E p \in 1..Len(DirKeys) :
    /\ DirEvent(p) /\ Handled(p) /\ ~wat[p].werr /\ wat[p].ev = DD
    /\ {DD, DE} \subseteq wat[p].watches
    /\ {FDB, FDEB} \subseteq {applied[j].name : j \in AppliesOf(p)}

\* C5 (as claimed): no AddFile call (no upload, no link) is ever made for a file
\* whose final extension is in the ignore list.
C5_NoIntentForIgnoredSuffix ==
  \A p \in Procs : af[p].pc # "none" => ~IgnoredSuffix(Ignore, af[p].from)

\* C6 (as claimed): with ignore-hidden set, no AddFile call is ever made for a path
\* with a hidden segment below the watch root.
C6_NoIntentForHiddenPath ==
  IgnoreHidden =>
    \A i \in 1..Len(DirKeys) :
      af[i].pc # "none" => ~HiddenBelowRoot(DirKeys[i].Dir, af[i].from)

\* C9: a watcher handles its notifications one at a time in arrival order: what it
\* has completed came no later than the event in hand, everything still queued came
\* after it, and a remote apply in progress belongs to the event in hand; so the
\* applies of one path are completed in the order of their notifications.
C9_IntentsInArrivalOrder ==
  \A i \in 1..Len(DirKeys) :
    /\ \A j, k \in 1..Len(applied) :
         (j < k /\ applied[j].p = i /\ applied[k].p = i) => applied[j].id <= applied[k].id
    /\ \A j \in 1..Len(applied) : applied[j].p = i => applied[j].id <= wat[i].id
    /\ \A j \in 1..Len(events[i]) : events[i][j].id > wat[i].id
    /\ af[i].pc # "none" => (wat[i].pc = "adding" /\ af[i].from = wat[i].name)

\* a create of a path was applied, then a later modify or remove of the same path,
\* while the second notification was queued behind the first
C9_Witness ==
  \E j, k \in 1..Len(applied) :
    /\ j < k /\ applied[j].name = applied[k].name
    /\ applied[j].op = "Create" /\ applied[k].op \in {"Write", "Remove"}
    /\ applied[j].id < applied[k].id


\* ------------------------------------------------------------ the poll loop
MaxPollFaults == 2  \* remote failures injected in the poll specification

\* GetFileCID(path): the id files/stat reports, "" when the request fails or the
\* answer holds no hash
GetFileCID(m, path, inj) ==
  IF inj # NoErr \/ path \notin DOMAIN m THEN Nil ELSE MfsCid(m, path)

\* pin/update from to: from must be pinned; it is unpinned and to is pinned
PinUpdateErr(ps, from) == IF from \in ps THEN NoErr ELSE ErrNotPinned
PinUpdate(ps, from, to) == (ps \ {from}) \cup {to}

\* name/publish?arg=cid&key=name
ErrNoKey == <<"no", "key", "by", "the", "given", "name", "was", "found">>
PublishErr(ks, name, cid) ==
  IF cid = Nil THEN ErrArg ELSE IF name \in ks THEN NoErr ELSE ErrNoKey
NamePublish(names, name, cid) ==
  [k \in DOMAIN names \cup {name} |-> IF k = name THEN cid ELSE names[k]]

\* the test of the main loop on the snapshot id at hand
DriftAny(fCID, cid) == fCID # cid
Drift(fCID, cid) == Len(fCID) > 0 /\ fCID # cid

\* the steps of one repair: if dk.Pin { UpdatePin }, if dk.Estuary { UpdatePinEstuary },
\* Publish
StepAfterDriftPinAll(dk) == "pinupdate"
StepAfterDrift(dk) ==
  IF dk.Pin THEN "pinupdate" ELSE IF dk.Estuary THEN "estuary" ELSE "publish"
StepAfterPin(dk) == IF dk.Estuary THEN "estuary" ELSE "publish"

\* the id the repair publishes: Publish(fCID, dk.ID)
PublishedId(fCID, cid) == fCID

\* for _, dk := range DirKeys: the next directory of the pass, and after the last
\* one the sleep
AfterDirSleep(m) == [m EXCEPT !.pc = "sleep", !.i = 0]
AfterDir(m) ==
  IF m.i < Len(DirKeys) THEN [m EXCEPT !.pc = "poll", !.i = @ + 1]
  ELSE [m EXCEPT !.pc = "sleep", !.i = 0]

\* time.Sleep(SyncTime) returns and a pass over DirKeys begins
M_Sleep ==
  /\ main.pc = "sleep"
  /\ main' = [main EXCEPT !.pc = "poll", !.i = 1]
  /\ UNCHANGED <<cfgVars, filestore, DirKeys, fs, remoteVars, faults, fsops, dbVars, watVars, af,
                 histVars>>

\* GetFileCID(dk.MFSPath) and the drift test for the next directory of the pass
\* history: the target paths an AddFile with overwrite has removed (files/rm answered
\* without error) and not linked again yet, of files that exist locally
Relinking ==
  {af[p].to : p \in {q \in DOMAIN af :
                       /\ af[q].pc = "cp" /\ af[q].overwrite
                       /\ af[q].to \notin DOMAIN mfs /\ af[q].from \in DOMAIN fs
                       /\ \E k \in 1..Len(calls[q]) :
                            calls[q][k].op = "rm" /\ calls[q][k].err = NoErr}}

M_Poll ==
  /\ main.pc = "poll"
  /\ LET dk == DirKeys[main.i] IN
     \E inj \in Inject("stat") :
       LET fCID == GetFileCID(mfs, dk.MFSPath, inj)
           err == IF inj # NoErr THEN inj
                  ELSE IF dk.MFSPath \in DOMAIN mfs THEN NoErr ELSE ErrNotExist
       IN
       /\ faults' = Spend(inj)
       /\ calls' = [calls EXCEPT ![Main] = <<[op |-> "stat", arg |-> dk.MFSPath, err |-> err,
                                               relinking |-> Relinking]>>]
       /\ main' = IF Drift(fCID, dk.CID)
                  THEN [main EXCEPT !.pc = StepAfterDrift(dk), !.fCID = fCID, !.depth = 0]
                  ELSE AfterDir(main)
  /\ UNCHANGED <<cfgVars, filestore, DirKeys, fs, remoteVars, fsops, dbVars, watVars, af,
                 posted, applied, polls, dbop>>

\* UpdatePin(dk.CID, fCID): the pin/update request; on the recognized error text
\* the filestore is cleaned and UpdatePin calls itself, on any other error Pin(to)
M_PinUpdate ==
  /\ main.pc = "pinupdate"
  /\ LET dk == DirKeys[main.i] IN
     \E inj \in Inject("pinupdate") :
       LET err == IF inj # NoErr THEN inj ELSE PinUpdateErr(pins, dk.CID) IN
       /\ faults' = Spend(inj)
       /\ calls' = Logged(Main, "pinupdate", <<dk.CID, main.fCID>>, err)
       /\ pins' = IF err = NoErr THEN PinUpdate(pins, dk.CID, main.fCID) ELSE pins
       /\ main' = [main EXCEPT !.depth = @ + 1,
                               !.pc = IF err = NoErr THEN StepAfterPin(dk)
                                      ELSE IF BadBlockText(err) THEN "cleanfs"
                                      ELSE "pinadd"]
  /\ UNCHANGED <<cfgVars, filestore, DirKeys, fs, mfs, keys, ipns, fsops, dbVars, watVars, af,
                 posted, applied, polls, dbop>>

\* HandleBadBlockError(err, ""): the call of CleanFilestore and its select on the
\* guard; when CleanFilestore has returned, UpdatePin calls itself
M_CleanFS ==
  /\ main.pc = "cleanfs"
  /\ filestore.cf[Main].pc \in {"idle", "ret"}
  /\ calls' = Logged(Main, "cleanfs", Nil, NoErr)
  /\ Select(Main)
  /\ UNCHANGED <<cfgVars, DirKeys, fs, remoteVars, faults, fsops, dbVars, watVars,
                 posted, applied, polls, dbop>>

\* Pin(to) after a pin/update that failed otherwise
M_PinAdd ==
  /\ main.pc = "pinadd"
  /\ LET dk == DirKeys[main.i] IN
     \E inj \in Inject("pinadd") :
       /\ faults' = Spend(inj)
       /\ calls' = Logged(Main, "pinadd", main.fCID, inj)
       /\ pins' = IF inj = NoErr THEN pins \cup {main.fCID} ELSE pins
       /\ main' = [main EXCEPT !.pc = StepAfterPin(dk)]
  /\ UNCHANGED <<cfgVars, filestore, DirKeys, fs, mfs, keys, ipns, fsops, dbVars, watVars, af,
                 posted, applied, polls, dbop>>

\* What the pinning service answers to GET pinning/pins: a list of results in which
\* the old id is pinned or not; or, as a failure, an error, a body that does not
\* decode, or a list with a result that lacks its pin object.
ErrDecode == <<"invalid", "character">>
ErrBlankKey == <<"Estuary", "API", "key", "is", "blank.">>
EstuaryAnswers ==
  {"pinned", "unpinned"} \cup (IF faults > 0 THEN {"error", "undecodable", "nopin"} ELSE {})
EstuaryErr(ans) ==
  IF ans = "error" THEN ErrTimeout ELSE IF ans = "undecodable" THEN ErrDecode ELSE NoErr

\* UpdatePinEstuary after the answer: an error or an undecodable body is logged and
\* the function returns; the loop over the results reads pinResult.Pin.Cid, a nil
\* pointer dereference when the pin object is missing; with the old id among the
\* results the pin is updated, without it a new pin is made
StepAfterEstuary(ans) ==
  IF ans = "nopin" THEN "panic"
  ELSE IF ans = "pinned" THEN "estuaryupdate"
  ELSE IF ans = "unpinned" THEN "estuarypin"
  ELSE "publish"

\* UpdatePinEstuary(dk.CID, fCID, name): GET pinning/pins?cid=old; doEstuaryRequest
\* returns an error without a request when the key is blank
M_Estuary ==
  /\ main.pc = "estuary"
  /\ IF EstuaryAPIKey = Nil
     THEN /\ main' = [main EXCEPT !.pc = "publish"]
          /\ UNCHANGED <<faults, calls>>
     ELSE \E ans \in EstuaryAnswers :
          /\ faults' = IF ans \in {"pinned", "unpinned"} THEN faults ELSE faults - 1
          /\ calls' = Logged(Main, "estuary", <<DirKeys[main.i].CID, main.fCID>>,
                             EstuaryErr(ans))
          /\ main' = [main EXCEPT !.pc = StepAfterEstuary(ans)]
  /\ UNCHANGED <<cfgVars, filestore, DirKeys, fs, remoteVars, fsops, dbVars, watVars, af,
                 posted, applied, polls, dbop>>

\* POST pinning/pins/<reqId>: done when it succeeds, else the error is logged and
\* PinEstuary follows
M_EstuaryUpdate ==
  /\ main.pc = "estuaryupdate"
  /\ \E inj \in Inject("estuary") :
       /\ faults' = Spend(inj)
       /\ calls' = Logged(Main, "estuaryupdate", <<DirKeys[main.i].CID, main.fCID>>, inj)
       /\ main' = [main EXCEPT !.pc = IF inj # NoErr THEN "estuarypin" ELSE "publish"]
  /\ UNCHANGED <<cfgVars, filestore, DirKeys, fs, remoteVars, fsops, dbVars, watVars, af,
                 posted, applied, polls, dbop>>

\* PinEstuary(newcid, name): POST pinning/pins, its error logged
M_EstuaryPin ==
  /\ main.pc = "estuarypin"
  /\ \E inj \in Inject("estuary") :
       /\ faults' = Spend(inj)
       /\ calls' = Logged(Main, "estuarypin", <<Nil, main.fCID>>, inj)
       /\ main' = [main EXCEPT !.pc = "publish"]
  /\ UNCHANGED <<cfgVars, filestore, DirKeys, fs, remoteVars, fsops, dbVars, watVars, af,
                 posted, applied, polls, dbop>>

\* Publish(fCID, dk.ID), its error dropped, then dk.CID = fCID
M_Publish ==
  /\ main.pc = "publish"
  /\ LET dk == DirKeys[main.i]
         name == <<KeySpace, dk.ID>>
     IN
     \E inj \in Inject("publish") :
       LET id == PublishedId(main.fCID, dk.CID)
           err == IF inj # NoErr THEN inj ELSE PublishErr(keys, name, id)
           log == Append(calls[Main], [op |-> "publish", arg |-> <<id, name>>, err |-> err])
       IN
       /\ faults' = Spend(inj)
       /\ calls' = [calls EXCEPT ![Main] = log]
       /\ ipns' = IF err = NoErr THEN NamePublish(ipns, name, id) ELSE ipns
       /\ DirKeys' = [DirKeys EXCEPT ![main.i].CID = main.fCID]
       /\ polls' = Append(polls, [i |-> main.i, from |-> dk.CID, to |-> main.fCID,
                                  cid |-> DirKeys'[main.i].CID, pin |-> dk.Pin,
                                  estuary |-> dk.Estuary, calls |-> log])
       /\ main' = [AfterDir(main) EXCEPT !.fCID = Nil, !.depth = 0]
  /\ UNCHANGED <<cfgVars, filestore, fs, mfs, keys, pins, fsops, dbVars, watVars, af,
                 posted, applied, dbop>>

\* ------------------------------------------------------ the poll specification
\* The watcher on one file and the main loop, with a remote node that may fail.
\* The directory is pinned or not, and sent to the pinning service or not.
InitPoll ==
  \E pin \in BOOLEAN, est \in BOOLEAN :
    \E key \in (IF est THEN {Nil, APIKey} ELSE {Nil}) :
      InitRunning(MaxPollFaults, MaxFsOps, FALSE, <<>>, FALSE, key, {},
                  [DK EXCEPT !.Pin = pin, !.Estuary = est])

NextPoll ==
  \/ \E v \in {V1, V3} : FsCreate(FA, v)
  \/ \E v \in {V1, V3} : FsWrite(FA, v)
  \/ FsRemove(FA)
  \/ \E i \in 1..Len(DirKeys) : W_Event(i)
  \/ \E i \in 1..Len(DirKeys) : W_Hash(i)
  \/ \E i \in 1..Len(DirKeys) : W_Remove(i)
  \/ \E i \in 1..Len(DirKeys) : W_DbDel(i)
  \/ \E p \in Procs : AF_Add(p)
  \/ \E p \in Procs : AF_MkDir(p)
  \/ \E p \in Procs : AF_Rm(p)
  \/ \E p \in Procs : AF_Cp(p)
  \/ \E p \in Procs : AF_Recover(p)
  \/ \E p \in Procs : RC_Refs(p)
  \/ \E p \in Procs : RC_Decode(p)
  \/ \E p \in Procs : RB_BlockRm(p)
  \/ \E p \in Procs : RB_PinRm(p)
  \/ M_Sleep
  \/ M_Poll
  \/ M_PinUpdate
  \/ M_CleanFS
  \/ CF_Verify(Main)
  \/ CF_Decode(Main)
  \/ M_PinAdd
  \/ M_Estuary
  \/ M_EstuaryUpdate
  \/ M_EstuaryPin
  \/ M_Publish

SpecPoll == InitPoll /\ [][NextPoll]_vars

\* C14 (as claimed): once every directory has initialized, no remote failure and no
\* malformed answer ends the program: the WatchDog goroutine never panics and never
\* exits.
C14_SteadyStateNeverAborts ==
  (\A i \in 1..Len(DirKeys) : wat[i].pc # "off") => main.pc \notin {"fatal", "panic"}

\* the requests of kind op in a log, and those among them that were answered with
\* the error text HandleBadBlockError recognizes
Requests(log, op) == {j \in 1..Len(log) : log[j].op = op}
Dangling(log, op) == {j \in Requests(log, op) : BadBlockText(log[j].err)}

\* C3 (as claimed): a poll that finds the snapshot id Y different from the
\* last-known id X makes exactly one publish of Y under the directory's identity,
\* exactly one pin update X to Y if the directory is pin-enabled and none
\* otherwise, and leaves last-known = Y.
C3_ExactlyOnePinUpdate ==
  \A j \in 1..Len(polls) :
    LET r == polls[j] IN
    /\ Cardinality(Requests(r.calls, "publish")) = 1
    /\ \A k \in Requests(r.calls, "publish") :
         r.calls[k].arg = <<r.to, <<KeySpace, DirKeys[r.i].ID>> >>
    /\ Cardinality(Requests(r.calls, "pinupdate")) = (IF r.pin THEN 1 ELSE 0)
    /\ \A k \in Requests(r.calls, "pinupdate") : r.calls[k].arg = <<r.from, r.to>>
    /\ r.cid = r.to

\* C3 (amended): such a poll makes exactly one publish of Y under the directory's
\* identity and leaves last-known = Y; it makes no pin update if the directory is
\* not pin-enabled; if it is, every pin update is X to Y, there is one, plus one more
\* after each pin update answered with a dangling-reference error (so exactly one
\* when none is answered so).
C3_DriftRepair ==
  \A j \in 1..Len(polls) :
    LET r == polls[j] IN
    /\ r.from # r.to
    /\ Cardinality(Requests(r.calls, "publish")) = 1
    /\ \A k \in Requests(r.calls, "publish") :
         r.calls[k].arg = <<r.to, <<KeySpace, DirKeys[r.i].ID>> >>
    /\ ~r.pin => Requests(r.calls, "pinupdate") = {}
    /\ r.pin => Cardinality(Requests(r.calls, "pinupdate")) =
                  1 + Cardinality(Dangling(r.calls, "pinupdate"))
    /\ \A k \in Requests(r.calls, "pinupdate") : r.calls[k].arg = <<r.from, r.to>>
    /\ r.cid = r.to

\* a pin-enabled directory whose drift was repaired with a pin update repeated after
\* a recovery, and one repaired with a single pin update
C3_Witness ==
  /\ \E j \in 1..Len(polls) :
       /\ polls[j].pin /\ polls[j].from # polls[j].to
       /\ Cardinality(Requests(polls[j].calls, "pinupdate")) = 2
       /\ DirKeys[polls[j].i].CID = polls[j].to
  /\ \E j \in 1..Len(polls) :
       /\ polls[j].pin /\ Cardinality(Requests(polls[j].calls, "pinupdate")) = 1

\* C27 (as claimed): within one repair of the poll loop the recovery from a
\* dangling-reference error of pin/update runs at most once and the pin update is
\* made at most twice, however often the node answers with that error.
C27_PinUpdateRetriedOnce ==
  /\ Count(calls[Main], "cleanfs") <= 1
  /\ Count(calls[Main], "pinupdate") <= 2
  /\ main.depth <= 2

\* C28 (as claimed): the repair of a drift of a directory that is not pin-enabled
\* makes no pin request at all, neither to the node nor to the pinning service,
\* whatever the directory's pinning-service flag is; it makes its publish and
\* leaves the new id as last-known.
C28_NoPinNoPinRequests ==
  \A j \in 1..Len(polls) :
    LET r == polls[j] IN
    ~r.pin =>
      /\ Requests(r.calls, "pinupdate") = {} /\ Requests(r.calls, "pinadd") = {}
      /\ Requests(r.calls, "estuary") = {} /\ Requests(r.calls, "estuaryupdate") = {}
      /\ Requests(r.calls, "estuarypin") = {}
      /\ Cardinality(Requests(r.calls, "publish")) = 1
      /\ r.cid = r.to


\* ------------------------------------------------------------------ startup
MaxRuns == 2        \* runs of the program: the first and the ones after a restart
MaxScanFaults == 1  \* remote failures injected in the scan specification

\* HashDir(path, dontHash): the fingerprint of every file of the walk that has no
\* ignored suffix, recalculated from what the store holds for it, and the error of
\* the walk
HashDir(db, fsys, path, hidden, ignore, dontHash) ==
  LET walk == filePathWalkDir(fsys, path, hidden)
      files == walk.files
      kept == {files[j] : j \in {x \in 1..Len(files) : ~IgnoredSuffix(ignore, files[x])}}
  IN  [hashes |-> [file \in kept |->
                     Recalculate([PathOnDisk |-> file,
                                  Hash |-> IF ~dontHash THEN DBGet(db, file) ELSE Nil,
                                  FakeHash |-> DBGet(db, TS \o file), isnil |-> FALSE],
                                 fsys, file, dontHash)],
       err |-> walk.err]

\* the files the loop of AddDir adds, in order, and the error of the walk, with
\* which AddDir returns at once
AddDirFiles(fsys, path, hidden, ignore) ==
  LET walk == filePathWalkDir(fsys, path, hidden) IN
  [files |-> SelectSeq(walk.files,
                       LAMBDA file : /\ ~(hidden /\ HiddenFileName(file))
                                     /\ ~IgnoredSuffix(ignore, file)),
   err |-> walk.err]

\* watchDir(dir) at startup, with `left` failures left to inject, each outcome
\* with the number it spends: a new watcher with a watch on every directory of
\* the walk; or fsnotify.NewWatcher() fails and no goroutine is started; or
\* watcher.Add fails for a directory of the walk, which ends the walk, and the
\* goroutine runs with the watches registered before that directory
StartWatch(fsys, dir, hidden, left) ==
  LET all == WatchThisWalk(fsys, dir, hidden)
      WalkPos(k) == CHOOSE j \in 1..Len(WalkOrder) : WalkOrder[j] = k
  IN
  {[w |-> [NewWatcher EXCEPT !.pc = "select", !.watches = all], cost |-> 0]} \cup
  (IF left > 0
   THEN {[w |-> NewWatcher, cost |-> 1]} \cup
        {[w |-> [NewWatcher EXCEPT !.pc = "select",
                                   !.watches = {d \in all : WalkPos(d) < WalkPos(refused)}],
          cost |-> 1] : refused \in all}
   ELSE {})

\* the loop over DirKeys moves on to the next directory, or the main loop begins
NextDirEarly(m) == [m EXCEPT !.pc = "sleep", !.i = 0, !.fCID = Nil, !.files = <<>>]
NextDir(m) ==
  IF m.i < Len(DirKeys)
  THEN [m EXCEPT !.pc = "dir", !.i = @ + 1, !.fCID = Nil, !.files = <<>>]
  ELSE [m EXCEPT !.pc = "sleep", !.i = 0, !.fCID = Nil, !.files = <<>>]

\* keys, err := ListKeys(); a failure ends the program (log.Fatalln)
M_ListKeys ==
  /\ main.pc = "init"
  /\ \E inj \in Inject("keylist") :
       /\ faults' = Spend(inj)
       /\ calls' = [calls EXCEPT ![Main] = <<[op |-> "keylist", arg |-> Nil, err |-> inj]>>]
       /\ main' = IF inj # NoErr THEN [main EXCEPT !.pc = "fatal"]
                  ELSE [main EXCEPT !.pc = "dir", !.i = 1, !.keys = keys]
  /\ UNCHANGED <<cfgVars, filestore, DirKeys, fs, remoteVars, fsops, dbVars, watVars, af,
                 posted, applied, polls, dbop>>

\* the loop body up to the scan: dk.MFSPath, and with a store HashDir, whose error
\* is a panic, and HashLock.Lock()
M_HashDir ==
  /\ main.pc = "dir"
  /\ LET dk == DirKeys[main.i]
         hd == HashDir(DB, fs, dk.Dir, IgnoreHidden, Ignore, dk.DontHash)
     IN
     /\ DirKeys' = [DirKeys EXCEPT ![main.i].MFSPath = DirName(dk.Dir)]
     /\ IF UseDB /\ hd.err # NoErr
        THEN /\ main' = [main EXCEPT !.pc = "panic"]
             /\ UNCHANGED HashLock
        ELSE IF UseDB
        THEN /\ HashLock = NoProc
             /\ HashLock' = Main
             /\ main' = [main EXCEPT !.pc = "scan", !.localDirs = {},
                                     !.hashmap = hd.hashes]
        ELSE /\ main' = [main EXCEPT !.pc = "keys"]
             /\ UNCHANGED HashLock
  /\ UNCHANGED <<cfgVars, filestore, fs, remoteVars, faults, fsops, DB, Hashes, watVars, af,
                 histVars>>

\* one iteration of `for _, hash := range hashmap` (in the order the map gives):
\* hash.Update(), and for a changed fingerprint the call of AddFile without
\* overwrite; after the last one HashLock.Unlock()
M_Scan ==
  /\ main.pc = "scan"
  /\ IF DOMAIN main.hashmap = {}
     THEN /\ HashLock' = NoProc
          /\ main' = [main EXCEPT !.pc = "keys"]
          /\ UNCHANGED <<DB, Hashes, af, calls, dbop>>
     ELSE \E file \in DOMAIN main.hashmap :
          LET dk == DirKeys[main.i]
              hash == main.hashmap[file]
              u == Update(DB, hash)
              parentDir == Join(Front(Split(file, SEP)), SEP)
              makeDir == parentDir \notin main.localDirs
          IN
          /\ DB' = u.db
          /\ dbop' = [op |-> "put", n |-> 0, path |-> file, fh |-> hash,
                      dontHash |-> dk.DontHash, ret |-> u.ret,
                      before |-> DB, beforeH |-> Hashes, rerr |-> NoErr]
          /\ IF u.ret
             THEN /\ af' = [af EXCEPT ![Main] = Call(file, MfsPathOf(dk.Dir, file),
                                                     dk.Nocopy, makeDir, FALSE)]
                  /\ calls' = [calls EXCEPT ![Main] = <<>>]
                  /\ main' = [main EXCEPT !.pc = "scanadd", !.cur = file,
                                          !.localDirs = @ \cup {parentDir}]
                  /\ UNCHANGED Hashes
             ELSE /\ Hashes' = [k \in DOMAIN Hashes \cup {file} |->
                                  IF k = file THEN hash ELSE Hashes[k]]
                  /\ main' = [main EXCEPT !.hashmap =
                                [k \in DOMAIN main.hashmap \ {file} |-> main.hashmap[k]]]
                  /\ UNCHANGED <<af, calls>>
          /\ UNCHANGED HashLock
  /\ UNCHANGED <<cfgVars, filestore, DirKeys, fs, remoteVars, faults, fsops, watVars,
                 posted, applied, polls>>

\* AddFile has returned to the scan: its error is logged, Hashes[path] = hash
M_ScanAdded ==
  /\ main.pc = "scanadd" /\ af[Main].pc = "ret"
  /\ Hashes' = [k \in DOMAIN Hashes \cup {main.cur} |->
                  IF k = main.cur THEN main.hashmap[main.cur] ELSE Hashes[k]]
  /\ applied' = Append(applied, [p |-> Main, run |-> main.run, id |-> 0, name |-> main.cur,
                                 op |-> "Scan", act |-> "add", overwrite |-> FALSE,
                                 to |-> af[Main].to, cid |-> af[Main].rhash,
                                 hash |-> af[Main].hash, err |-> af[Main].rerr,
                                 inj |-> af[Main].inj, mfs |-> mfs])
  /\ main' = [main EXCEPT !.pc = "scan", !.cur = Nil, !.hashmap =
                [k \in DOMAIN main.hashmap \ {main.cur} |-> main.hashmap[k]]]
  /\ af' = [af EXCEPT ![Main] = NoCall]
  /\ UNCHANGED <<cfgVars, filestore, DirKeys, fs, remoteVars, faults, fsops, DB, HashLock, watVars,
                 posted, calls, polls, dbop>>

\* what follows ResolveIPNS(ik.Id): if err != nil the key is republished, else the
\* watcher is started at once
StepAfterResolveAlways(err) == "republish"
StepAfterResolve(err) == IF err = NoErr THEN "watch" ELSE "republish"

\* a key named KeySpace+dk.ID is among the keys listed: dk.CID is what the name
\* resolves to, and the watcher starts; a failed resolve leads to a republish
M_Resolve ==
  /\ main.pc = "keys" /\ <<KeySpace, DirKeys[main.i].ID>> \in main.keys
  /\ LET dk == DirKeys[main.i]
         name == <<KeySpace, dk.ID>>
     IN
     \E inj \in Inject("resolve") :
       LET err == IF inj # NoErr THEN inj
                  ELSE IF name \in DOMAIN ipns THEN NoErr ELSE ErrResolve
       IN
       /\ calls' = [calls EXCEPT ![Main] = <<[op |-> "resolve", arg |-> name, err |-> err]>>]
       /\ DirKeys' = [DirKeys EXCEPT ![main.i].CID = IF err = NoErr THEN ipns[name] ELSE Nil]
       /\ IF StepAfterResolve(err) = "watch"
          THEN \E sw \in StartWatch(fs, dk.Dir, IgnoreHidden, Spend(inj)) :
               /\ faults' = Spend(inj) - sw.cost
               /\ wat' = [wat EXCEPT ![main.i] = sw.w]
               /\ main' = NextDir(main)
          ELSE /\ faults' = Spend(inj)
               /\ main' = [main EXCEPT !.pc = "republish"]
               /\ UNCHANGED wat
  /\ UNCHANGED <<cfgVars, filestore, fs, remoteVars, fsops, dbVars, events, af,
                 posted, applied, polls, dbop>>

\* dk.CID = GetFileCID(dk.MFSPath) after a failed resolve
M_Republish ==
  /\ main.pc = "republish"
  /\ LET dk == DirKeys[main.i] IN
     \E inj \in Inject("stat") :
       LET fCID == GetFileCID(mfs, dk.MFSPath, inj) IN
       /\ faults' = Spend(inj)
       /\ calls' = Logged(Main, "stat", dk.MFSPath, inj)
       /\ DirKeys' = [DirKeys EXCEPT ![main.i].CID = fCID]
       /\ main' = [main EXCEPT !.pc = "startpub", !.fCID = fCID]
  /\ UNCHANGED <<cfgVars, filestore, fs, remoteVars, fsops, dbVars, watVars, af,
                 posted, applied, polls, dbop>>

\* no such key: GenerateKey(dk.ID), whose failure is a panic, then AddDir begins
\* with its walk, whose error is a panic too
M_GenerateKey ==
  /\ main.pc = "keys" /\ <<KeySpace, DirKeys[main.i].ID>> \notin main.keys
  /\ LET dk == DirKeys[main.i]
         name == <<KeySpace, dk.ID>>
         walk == AddDirFiles(fs, dk.Dir, IgnoreHidden, Ignore)
     IN
     \E inj \in Inject("keygen") :
       /\ faults' = Spend(inj)
       /\ calls' = [calls EXCEPT ![Main] = <<[op |-> "keygen", arg |-> name, err |-> inj]>>]
       /\ keys' = IF inj = NoErr THEN keys \cup {name} ELSE keys
       /\ main' = IF inj # NoErr \/ walk.err # NoErr THEN [main EXCEPT !.pc = "panic"]
                  ELSE [main EXCEPT !.pc = "adddir", !.localDirs = {},
                                    !.files = walk.files]
  /\ UNCHANGED <<cfgVars, filestore, DirKeys, fs, mfs, ipns, pins, fsops, dbVars, watVars, af,
                 posted, applied, polls, dbop>>

\* one iteration of the loop of AddDir: the call of AddFile without overwrite;
\* after the last one cid := GetFileCID(dirName), with which AddDir returns when
\* it has neither to pin nor to pin at Estuary; dk.CID is assigned when it returns
M_AddDir ==
  /\ main.pc = "adddir"
  /\ LET dk == DirKeys[main.i] IN
     IF main.files # <<>>
     THEN LET file == Head(main.files)
              parentDir == Join(Front(Split(file, SEP)), SEP)
              makeDir == parentDir \notin main.localDirs
          IN
          /\ af' = [af EXCEPT ![Main] = Call(file, MfsPathOf(dk.Dir, file), dk.Nocopy,
                                             makeDir, FALSE)]
          /\ calls' = [calls EXCEPT ![Main] = <<>>]
          /\ main' = [main EXCEPT !.pc = "adddiradd", !.cur = file,
                                  !.localDirs = @ \cup {parentDir}]
          /\ UNCHANGED faults
     ELSE \E inj \in Inject("stat") :
          LET cid == GetFileCID(mfs, DirName(dk.Dir), inj) IN
          /\ faults' = Spend(inj)
          /\ calls' = [calls EXCEPT ![Main] = <<[op |-> "stat", arg |-> DirName(dk.Dir),
                                                 err |-> inj]>>]
          /\ main' = [main EXCEPT !.fCID = cid,
                        !.pc = IF dk.Pin THEN "addpin"
                               ELSE IF dk.Estuary THEN "addestuary" ELSE "startpub"]
          /\ UNCHANGED af
  /\ DirKeys' = IF main'.pc = "startpub" THEN [DirKeys EXCEPT ![main.i].CID = main'.fCID]
                 ELSE DirKeys
  /\ UNCHANGED <<cfgVars, filestore, fs, remoteVars, fsops, dbVars, watVars,
                 posted, applied, polls, dbop>>

\* AddFile has returned to AddDir: its error is logged
M_AddDirAdded ==
  /\ main.pc = "adddiradd" /\ af[Main].pc = "ret"
  /\ applied' = Append(applied, [p |-> Main, run |-> main.run, id |-> 0, name |-> main.cur,
                                 op |-> "AddDir", act |-> "add", overwrite |-> FALSE,
                                 to |-> af[Main].to, cid |-> af[Main].rhash,
                                 hash |-> af[Main].hash, err |-> af[Main].rerr,
                                 inj |-> af[Main].inj, mfs |-> mfs])
  /\ main' = [main EXCEPT !.pc = "adddir", !.cur = Nil, !.files = Tail(@)]
  /\ af' = [af EXCEPT ![Main] = NoCall]
  /\ UNCHANGED <<cfgVars, filestore, DirKeys, fs, remoteVars, faults, fsops, dbVars, watVars,
                 posted, calls, polls, dbop>>

\* if pin { Pin(cid) } in AddDir
M_AddDirPin ==
  /\ main.pc = "addpin"
  /\ \E inj \in Inject("pinadd") :
       LET err == IF inj # NoErr THEN inj ELSE IF main.fCID = Nil THEN ErrArg ELSE NoErr IN
       /\ faults' = Spend(inj)
       /\ calls' = Logged(Main, "pinadd", main.fCID, err)
       /\ pins' = IF err = NoErr THEN pins \cup {main.fCID} ELSE pins
       /\ main' = [main EXCEPT !.pc = IF DirKeys[main.i].Estuary THEN "addestuary"
                                      ELSE "startpub"]
  /\ DirKeys' = IF main'.pc = "startpub" THEN [DirKeys EXCEPT ![main.i].CID = main.fCID]
                 ELSE DirKeys
  /\ UNCHANGED <<cfgVars, filestore, fs, mfs, keys, ipns, fsops, dbVars, watVars, af,
                 posted, applied, polls, dbop>>

\* if estuary { PinEstuary(cid, dirName) } in AddDir: POST pinning/pins, its error
\* logged; no request when the key is blank
M_AddDirEstuary ==
  /\ main.pc = "addestuary"
  /\ IF EstuaryAPIKey = Nil
     THEN UNCHANGED <<faults, calls>>
     ELSE \E inj \in Inject("estuary") :
          /\ faults' = Spend(inj)
          /\ calls' = Logged(Main, "estuarypin", <<Nil, main.fCID>>, inj)
  /\ main' = [main EXCEPT !.pc = "startpub"]
  /\ DirKeys' = [DirKeys EXCEPT ![main.i].CID = main.fCID]
  /\ UNCHANGED <<cfgVars, filestore, fs, remoteVars, fsops, dbVars, watVars, af,
                 posted, applied, polls, dbop>>

\* Publish(dk.CID, dk.ID), its error dropped; watchDir; the next directory
M_StartPublish ==
  /\ main.pc = "startpub"
  /\ LET dk == DirKeys[main.i]
         name == <<KeySpace, dk.ID>>
     IN
     \E inj \in Inject("publish") :
       LET err == IF inj # NoErr THEN inj ELSE PublishErr(keys, name, dk.CID) IN
       \E sw \in StartWatch(fs, dk.Dir, IgnoreHidden, Spend(inj)) :
       /\ faults' = Spend(inj) - sw.cost
       /\ calls' = Logged(Main, "publish", <<dk.CID, name>>, err)
       /\ ipns' = IF err = NoErr THEN NamePublish(ipns, name, dk.CID) ELSE ipns
       /\ wat' = [wat EXCEPT ![main.i] = sw.w]
       /\ main' = NextDir(main)
  /\ UNCHANGED <<cfgVars, filestore, DirKeys, fs, mfs, keys, pins, fsops, dbVars, events, af,
                 posted, applied, polls, dbop>>

\* InitDB(path) on a store that exists: leveldb.OpenFile returns what was written
ReopenEmpty(db) == <<>>
Reopen(db) == db

\* The program is stopped while it is idle, or has ended by itself, and is started
\* again: the store and the remote node keep their state, everything in memory is new.
Restart ==
  /\ main.run < MaxRuns
  /\ \/ main.pc \in {"fatal", "panic"}
     \/ /\ main.pc = "sleep"
        /\ \A i \in 1..Len(DirKeys) : wat[i].pc = "select" /\ events[i] = <<>>
  /\ main' = [MainIdle EXCEPT !.run = main.run + 1, !.faults0 = faults, !.posted0 = posted]
  /\ DirKeys' = [i \in 1..Len(DirKeys) |-> [DirKeys[i] EXCEPT !.CID = Nil, !.MFSPath = Nil]]
  /\ wat' = [i \in 1..Len(DirKeys) |-> NewWatcher]
  /\ events' = [i \in 1..Len(DirKeys) |-> <<>>]
  /\ af' = [p \in Procs |-> NoCall]
  /\ calls' = [p \in Procs |-> <<>>]
  /\ Hashes' = <<>> /\ HashLock' = NoProc
  /\ DB' = Reopen(DB)
  /\ filestore' = [filestore EXCEPT !.lock = 0, !.cf = [p \in Procs |-> NoClean]]
  /\ UNCHANGED <<cfgVars, fs, remoteVars, faults, fsops, posted, applied, polls, dbop>>


\* ------------------------------------------------------ the scan specification
\* The program from its start, with a store, on a directory that holds one file and
\* has no key yet; the file changes, remote requests may fail, and the program is
\* restarted. The main loop only sleeps here.
InitStart(nfaults, nfsops, hidden, ignore, usedb, dk, fs0) ==
  /\ IgnoreHidden = hidden /\ Ignore = ignore /\ UseDB = usedb /\ EstuaryAPIKey = APIKey
  /\ DirKeys = <<dk>>
  /\ fs = fs0
  /\ mfs = <<>> /\ keys = {} /\ ipns = <<>> /\ pins = {}
  /\ faults = nfaults /\ fsops = nfsops
  /\ DB = <<>> /\ Hashes = <<>> /\ HashLock = NoProc
  /\ main = [MainIdle EXCEPT !.faults0 = nfaults]
  /\ wat = <<NewWatcher>>
  /\ events = << <<>> >>
  /\ af = [p \in {0, 1} |-> NoCall]
  /\ posted = 0 /\ calls = [p \in {0, 1} |-> <<>>] /\ applied = <<>> /\ polls = <<>>
  /\ dbop = NoOp
  /\ filestore = [NoScans EXCEPT !.cf = [p \in Procs |-> NoClean], !.most = MaxAnswer]

InitScan ==
  \E b \in BOOLEAN :
    InitStart(MaxScanFaults, MaxFsOps, FALSE, <<>>, TRUE, [DK EXCEPT !.Pin = b, !.Estuary = b],
              (R :> DirEnt) @@ (FA :> V1))

NextScan ==
  \/ \E v \in {V1, V3} : FsCreate(FA, v)
  \/ \E v \in {V1, V3} : FsWrite(FA, v)
  \/ FsRemove(FA)
  \/ \E i \in 1..Len(DirKeys) : W_Event(i)
  \/ \E i \in 1..Len(DirKeys) : W_Hash(i)
  \/ \E i \in 1..Len(DirKeys) : W_Remove(i)
  \/ \E i \in 1..Len(DirKeys) : W_DbDel(i)
  \/ \E p \in Procs : AF_Add(p)
  \/ \E p \in Procs : AF_MkDir(p)
  \/ \E p \in Procs : AF_Rm(p)
  \/ \E p \in Procs : AF_Cp(p)
  \/ \E p \in Procs : AF_Recover(p)
  \/ \E p \in Procs : RC_Refs(p)
  \/ \E p \in Procs : RC_Decode(p)
  \/ \E p \in Procs : RB_BlockRm(p)
  \/ \E p \in Procs : RB_PinRm(p)
  \/ M_ListKeys
  \/ M_HashDir
  \/ M_Scan
  \/ M_ScanAdded
  \/ M_Resolve
  \/ M_Republish
  \/ M_GenerateKey
  \/ M_AddDir
  \/ M_AddDirAdded
  \/ M_AddDirPin
  \/ M_AddDirEstuary
  \/ M_StartPublish
  \/ Restart

SpecScan == InitScan /\ [][NextScan]_vars

\* the remote entry of a path is what the local file is: linked to the id of its
\* content, or absent when the file is
RemoteMatches(name, to) ==
  IF IsFile(fs, name) THEN to \in DOMAIN mfs /\ mfs[to] = CidOf(fs[name].c)
  ELSE to \notin DOMAIN mfs

\* C7 (as claimed): when the remote operation of a create, modify or remove intent
\* failed with a transient error and no filesystem event followed, then once a later
\* run has completed its startup scan without a remote failure, the remote entry of
\* the path matches the local file.
C7_NextScanRepairs ==
  \A j \in 1..Len(applied) :
    LET a == applied[j] IN
    (/\ a.p # Main /\ a.err = ErrTimeout /\ a.id = posted
     /\ a.run < main.run /\ main.pc = "sleep" /\ faults = main.faults0)
      => RemoteMatches(a.name, a.to)


\* the startup of directory i has assigned dk.CID and started its watcher
Started(i) == wat[i].pc # "off"

\* C13 (as claimed): the last-known snapshot id a directory's startup has set is a
\* snapshot id the remote node returned: never the empty value that a failed or
\* empty answer yields.
C13_LastKnownWasObserved ==
  \A i \in 1..Len(DirKeys) : Started(i) => DirKeys[i].CID # Nil

\* goroutine p is inside AddFile, between its first request and its return
InRemoteCall(p) == af[p].pc \notin {"none", "ret"}

\* C15 (as claimed): no goroutine issues a remote request while it holds HashLock,
\* so that no watcher has to wait for the lock while its holder waits for the node.
C15_NoRemoteCallUnderLock ==
  HashLock # NoProc => ~InRemoteCall(HashLock)

\* ---------------------------------------------------- the rescan specification
\* The program from its first start on a directory that holds a file and a file
\* with an ignored suffix, with or without a store, under either hashing strategy,
\* with a remote node that answers every request. The file changes only while the
\* program is stopped: before a run's first statement.
Stopped == main.pc = "init"

InitRescan ==
  \E usedb \in BOOLEAN, dontHash \in BOOLEAN :
    InitStart(0, MaxFsOps, FALSE, << <<"p">> >>, usedb, [DK EXCEPT !.DontHash = dontHash],
              (R :> DirEnt) @@ (FA :> V1) @@ (FP :> V1))

NextRescan ==
  \/ \E v \in {V1} : Stopped /\ FsCreate(FA, v)
  \/ \E v \in {V2, V3, V4} : Stopped /\ FsWrite(FA, v)
  \/ Stopped /\ FsRemove(FA)
  \/ \E p \in Procs : AF_Add(p)
  \/ \E p \in Procs : AF_MkDir(p)
  \/ \E p \in Procs : AF_Cp(p)
  \/ M_ListKeys
  \/ M_HashDir
  \/ M_Scan
  \/ M_ScanAdded
  \/ M_Resolve
  \/ M_Republish
  \/ M_GenerateKey
  \/ M_AddDir
  \/ M_AddDirAdded
  \/ M_StartPublish
  \/ Restart

SpecRescan == InitRescan /\ [][NextRescan]_vars

\* the name of a directory's key, and the operations the WatchDog goroutine
\* completed on files in a run
KeyName(i) == <<KeySpace, DirKeys[i].ID>>
AppliedInRun(run) == {j \in 1..Len(applied) : applied[j].p = Main /\ applied[j].run = run}

\* every file of directory i that is not ignored is linked on the remote mount
Uploaded(i) ==
  \A k \in UFiles :
    (IsFile(fs, k) /\ Under(k, TrimSep(DirKeys[i].Dir)) /\ ~IgnoredSuffix(Ignore, k))
      => RemoteMatches(k, MfsPathOf(DirKeys[i].Dir, k))

\* C12 (as claimed): when the startup of a directory whose key was not registered has completed,
\* every file of it that is not ignored is linked on the remote mount, its key
\* exists and is published to the snapshot id of the mount, which is the last-known
\* id; and a later run that finds the key registered and no file changed since
\* the run before resolves the key and applies (uploads, links) no file.
C12_FirstRunUploadsSecondRunResolves ==
  \A i \in 1..Len(DirKeys) :
    /\ (main.pc = "sleep" /\ KeyName(i) \notin main.keys)
         => /\ Uploaded(i)
            /\ KeyName(i) \in keys /\ KeyName(i) \in DOMAIN ipns
            /\ ipns[KeyName(i)] = MfsCid(mfs, DirKeys[i].MFSPath)
            /\ DirKeys[i].CID = ipns[KeyName(i)]
    /\ (main.run > 1 /\ posted = main.posted0 /\ KeyName(i) \in main.keys)
         => /\ AppliedInRun(main.run) = {}
            /\ af[Main].pc = "none"
            /\ main.pc = "sleep" => DirKeys[i].CID = ipns[KeyName(i)]

\* the current fingerprint of a file under the directory's hashing strategy differs
\* from, or is absent from, the store
CurrentDiffers(db, fsys, file, dontHash) ==
  IF dontHash
  THEN ~DBHas(db, TS \o file) \/ DBGet(db, TS \o file) # GetHashValue(fsys, file, TRUE)
  ELSE ~DBHas(db, file) \/ DBGet(db, file) # GetHashValue(fsys, file, FALSE)

\* C16 (as claimed): the files the startup scan is about to apply are exactly the
\* files without an ignored suffix whose current fingerprint, under the directory's
\* hashing strategy, differs from or is absent from the store.
C16_ScanAppliesChanged ==
  main.pc = "scan" =>
    \A file \in DOMAIN main.hashmap :
      /\ ~IgnoredSuffix(Ignore, file)
      /\ Update(DB, main.hashmap[file]).ret
           <=> CurrentDiffers(DB, fs, file, DirKeys[main.i].DontHash)

\* C17 (as claimed): a file the startup scan has applied is linked at its mapped
\* path with the content id its upload returned, also when the remote mount had an
\* entry at that path before.
C17_ScanOverwrites ==
  \A j \in 1..Len(applied) :
    applied[j].op = "Scan" =>
      /\ applied[j].to \in DOMAIN applied[j].mfs
      /\ applied[j].mfs[applied[j].to] = applied[j].hash

\* C18 (as claimed): the fingerprint scan of a directory runs only after the
\* directory's identity step (resolve, or full upload and publish) has set its
\* last-known snapshot id in this run, and a file of a directory whose key was not
\* registered is applied by the full upload before the scan applies it.
C18_ScanAfterIdentity ==
  /\ main.pc \in {"scan", "scanadd"} => DirKeys[main.i].CID # Nil
  /\ \A j \in 1..Len(applied) :
       (applied[j].op = "Scan" /\ applied[j].run = main.run /\ KeyName(1) \notin main.keys)
         => \E k \in 1..(j - 1) : /\ applied[k].op = "AddDir" /\ applied[k].run = main.run
                                   /\ applied[k].name = applied[j].name

\* C20 (as claimed): a key that was generated in this run exists on the node only
\* when the full upload of its directory has completed and its snapshot id is
\* recorded as last-known.
C20_KeyAfterUpload ==
  \A i \in 1..Len(DirKeys) :
    (KeyName(i) \in keys /\ KeyName(i) \notin main.keys /\ main.pc \notin {"init", "fatal"})
      => (main.pc \notin {"adddir", "adddiradd"} /\ DirKeys[i].CID # Nil)

\* the requests of the main goroutine since the key lookup found the directory's key
Registered == calls[Main] # <<>> /\ calls[Main][1].op = "resolve"

\* C21: for a directory whose key is registered, a resolve that succeeds makes the
\* resolved id the last-known id and no publish follows; a resolve that fails makes
\* what GetFileCID reads from the mount the last-known id and exactly one publish of
\* that id under the key follows; no key is generated in either case.
C21_RegisteredResolveOrRepublish ==
  Registered =>
    LET log == calls[Main]
        dk == DirKeys[1]
    IN
    /\ KeyName(1) \in keys /\ keys = main.keys
    /\ \A j \in 1..Len(log) : log[j].op # "keygen"
    /\ (main.pc = "sleep" /\ log[1].err = NoErr)
         => /\ Len(log) = 1
            /\ KeyName(1) \in DOMAIN ipns /\ dk.CID = ipns[KeyName(1)]
    /\ (main.pc = "startpub" /\ log[1].err # NoErr)
         => /\ Len(log) = 2 /\ log[2].op = "stat" /\ log[2].arg = dk.MFSPath
            /\ dk.CID = (IF log[2].err = NoErr /\ dk.MFSPath \in DOMAIN mfs
                         THEN MfsCid(mfs, dk.MFSPath) ELSE Nil)
            /\ main.fCID = dk.CID
    /\ (main.pc = "sleep" /\ log[1].err # NoErr)
         => /\ Len(log) = 3 /\ log[2].op = "stat"
            /\ log[3].op = "publish" /\ log[3].arg = <<dk.CID, KeyName(1)>>

\* a resolve has failed, the mount's id was read and republished, and it is the
\* last-known id
C21_Witness ==
  /\ Registered /\ main.pc = "sleep" /\ calls[Main][1].err # NoErr
  /\ Len(calls[Main]) = 3 /\ calls[Main][3].err = NoErr
  /\ DirKeys[1].CID # Nil /\ DirKeys[1].CID = MfsCid(mfs, DirKeys[1].MFSPath)

\* ------------------------------------------------------ the boot specification
\* Two directories, with or without a store: the key of the first is registered and
\* published, the second is new. The program starts, the node answers every
\* request, and the files of both directories change while it starts and runs.
MaxBootOps == 1     \* filesystem mutations in the boot specification

DK2 == [DK EXCEPT !.ID = "j", !.Dir = R2Dir]
BootFiles == {FA, FVA}

InitBoot ==
  \E usedb \in BOOLEAN :
    /\ IgnoreHidden = FALSE /\ Ignore = <<>> /\ UseDB = usedb /\ EstuaryAPIKey = Nil
    /\ DirKeys = <<DK, DK2>>
    /\ fs = (R :> DirEnt) @@ (FA :> V1) @@ (R2 :> DirEnt) @@ (FVA :> V1)
    /\ mfs = MfsCp(Mfs0, CidOf(1), MfsPathOf(RDir, FA))
    /\ keys = {<<KeySpace, DK.ID>>}
    /\ ipns = (<<KeySpace, DK.ID>> :> MfsCid(mfs, <<"w">>))
    /\ pins = {}
    /\ faults = 0 /\ fsops = MaxBootOps
    /\ DB = <<>> /\ Hashes = <<>> /\ HashLock = NoProc
    /\ main = MainIdle
    /\ wat = <<NewWatcher, NewWatcher>>
    /\ events = << <<>>, <<>> >>
    /\ af = [p \in {0, 1, 2} |-> NoCall]
    /\ posted = 0 /\ calls = [p \in {0, 1, 2} |-> <<>>] /\ applied = <<>> /\ polls = <<>>
    /\ dbop = NoOp
    /\ filestore = [NoScans EXCEPT !.cf = [p \in Procs |-> NoClean], !.most = MaxAnswer]

NextBoot ==
  \/ \E k \in BootFiles, v \in {V3} : FsWrite(k, v)
  \/ \E k \in BootFiles : FsRemove(k)
  \/ \E i \in 1..Len(DirKeys) : W_Event(i)
  \/ \E i \in 1..Len(DirKeys) : W_Hash(i)
  \/ \E i \in 1..Len(DirKeys) : W_Remove(i)
  \/ \E i \in 1..Len(DirKeys) : W_DbDel(i)
  \/ \E p \in Procs : AF_Add(p)
  \/ \E p \in Procs : AF_MkDir(p)
  \/ \E p \in Procs : AF_Rm(p)
  \/ \E p \in Procs : AF_Cp(p)
  \/ M_ListKeys
  \/ M_HashDir
  \/ M_Scan
  \/ M_ScanAdded
  \/ M_Resolve
  \/ M_GenerateKey
  \/ M_AddDir
  \/ M_AddDirAdded
  \/ M_StartPublish
  \/ M_Sleep
  \/ M_Poll
  \/ M_Publish

SpecBoot == InitBoot /\ [][NextBoot]_vars

\* the positions of the WatchDog goroutine in the startup loop over DirKeys
StartupPcs == {"init", "dir", "scan", "scanadd", "keys", "republish", "adddir", "adddiradd",
               "addpin", "addestuary", "startpub"}

\* the startup loop has finished its iteration for directory i: the scan (with a
\* store) and the identity step are behind it
StartupDone(i) == main.pc \notin StartupPcs \/ (main.pc # "init" /\ main.i > i)

\* C19: the watcher of a directory is running, has events queued or has completed
\* an operation only when the startup loop has finished that directory's iteration
\* (scan, then resolve or full upload and publish), with the directory's mount name
\* set and the scan's lock released; and the main loop polls only when the startup
\* loop has finished and every directory's watcher has been started.
C19_WatcherAfterStartup ==
  /\ \A i \in 1..Len(DirKeys) :
       (Started(i) \/ events[i] # <<>> \/ InRemoteCall(i))
         => (StartupDone(i) /\ DirKeys[i].MFSPath # Nil)
  /\ \A j \in 1..Len(applied) : applied[j].p # Main => StartupDone(applied[j].p)
  /\ main.pc \notin (StartupPcs \cup {"sleep", "fatal", "panic"})
       => \A i \in 1..Len(DirKeys) : Started(i) /\ StartupDone(i)

\* the main loop polls with a store configured, after the watcher of the first
\* directory completed an operation before the full upload of the second directory
\* added its file
C19_Witness ==
  /\ UseDB /\ main.pc = "poll"
  /\ \A i \in 1..Len(DirKeys) : Started(i)
  /\ \E j \in 1..Len(applied) : \E k \in (j + 1)..Len(applied) :
       /\ applied[j].p = 1
       /\ applied[k].p = Main /\ applied[k].op = "AddDir" /\ applied[k].name = FVA

\* -------------------------------------------------- the steady specification
\* Two pinned directories whose startup is behind them: both watchers run and the
\* main loop polls, while files are created in both directories and the node may
\* answer a request with an error.
MaxSteadyOps == 2       \* filesystem mutations in the steady specification
MaxSteadyFaults == 1    \* remote failures injected in the steady specification
Mfs2 == (<<"w">> :> "dir") @@ (<<"v">> :> "dir")

InitSteady ==
  /\ IgnoreHidden = FALSE /\ Ignore = <<>> /\ UseDB = FALSE /\ EstuaryAPIKey = Nil
  /\ DirKeys = << [DK EXCEPT !.Pin = TRUE, !.CID = MfsCid(Mfs2, <<"w">>), !.MFSPath = <<"w">>],
                  [DK2 EXCEPT !.Pin = TRUE, !.CID = MfsCid(Mfs2, <<"v">>), !.MFSPath = <<"v">>] >>
  /\ fs = (R :> DirEnt) @@ (R2 :> DirEnt)
  /\ mfs = Mfs2
  /\ keys = {<<KeySpace, DK.ID>>, <<KeySpace, DK2.ID>>}
  /\ ipns = (<<KeySpace, DK.ID>> :> MfsCid(Mfs2, <<"w">>))
              @@ (<<KeySpace, DK2.ID>> :> MfsCid(Mfs2, <<"v">>))
  /\ pins = {MfsCid(Mfs2, <<"w">>), MfsCid(Mfs2, <<"v">>)}
  /\ faults = MaxSteadyFaults /\ fsops = MaxSteadyOps
  /\ DB = <<>> /\ Hashes = <<>> /\ HashLock = NoProc
  /\ main = [MainIdle EXCEPT !.pc = "sleep"]
  /\ wat = << [NewWatcher EXCEPT !.pc = "select", !.watches = {R}],
              [NewWatcher EXCEPT !.pc = "select", !.watches = {R2}] >>
  /\ events = << <<>>, <<>> >>
  /\ af = [p \in {0, 1, 2} |-> NoCall]
  /\ posted = 0 /\ calls = [p \in {0, 1, 2} |-> <<>>] /\ applied = <<>> /\ polls = <<>>
  /\ dbop = NoOp
  /\ filestore = [NoScans EXCEPT !.cf = [p \in Procs |-> NoClean], !.most = MaxAnswer]

NextSteady ==
  \/ \E k \in BootFiles : FsCreate(k, V1)
  \/ \E i \in 1..Len(DirKeys) : W_Event(i)
  \/ \E i \in 1..Len(DirKeys) : W_Hash(i)
  \/ \E p \in Procs : AF_Add(p)
  \/ \E p \in Procs : AF_MkDir(p)
  \/ \E p \in Procs : AF_Rm(p)
  \/ \E p \in Procs : AF_Cp(p)
  \/ \E p \in Procs : AF_Recover(p)
  \/ \E p \in Procs : RC_Refs(p)
  \/ \E p \in Procs : RC_Decode(p)
  \/ \E p \in Procs : RB_BlockRm(p)
  \/ \E p \in Procs : RB_PinRm(p)
  \/ M_Sleep
  \/ M_Poll
  \/ M_PinUpdate
  \/ M_CleanFS
  \/ CF_Verify(Main)
  \/ CF_Decode(Main)
  \/ M_PinAdd
  \/ M_Publish

SpecSteady == InitSteady /\ [][NextSteady]_vars

\* the positions of the WatchDog goroutine in the main loop
SteadyPcs == {"sleep", "poll", "pinupdate", "cleanfs", "pinadd", "estuary", "estuaryupdate",
              "estuarypin", "publish"}
\* the last-known id of directory i
LastKnown(i) == DirKeys[i].CID

\* C29: in the main loop a directory's last-known id changes only in the step of the
\* poll loop that follows the publish of that directory's repair: no step of a
\* watcher and no recovery step changes it; and a pass of the poll loop goes from
\* the first directory through each next one to the last, and only then to the
\* next sleep.
C29_PollLoopSoleWriter ==
  [][main.pc \in SteadyPcs =>
       /\ \A i \in 1..Len(DirKeys) :
            LastKnown(i)' # LastKnown(i) =>
              /\ main.pc = "publish" /\ main.i = i /\ main'.pc \in {"poll", "sleep"}
              /\ wat' = wat /\ af' = af
              /\ LastKnown(i)' = main.fCID
       /\ main.pc \in {"cleanfs", "pinupdate", "pinadd"} \/ (\E p \in Procs : af'[p] # af[p])
            \/ wat' # wat \/ filestore' # filestore
              => DirKeys' = DirKeys
       /\ main'.i # main.i =>
            \/ main.pc = "sleep" /\ main.i = 0 /\ main'.i = 1 /\ main'.pc = "poll"
            \/ main.i < Len(DirKeys) /\ main'.i = main.i + 1 /\ main'.pc = "poll"
            \/ main.i = Len(DirKeys) /\ main'.i = 0 /\ main'.pc = "sleep"
       /\ (main.pc # "sleep" /\ main'.pc = "sleep") => main.i = Len(DirKeys)
    ]_vars

\* one pass of the poll loop has repaired the first directory and then the second,
\* with a recovery in one of the repairs, while a watcher was applying
C29_Witness ==
  /\ \E j \in 1..(Len(polls) - 1) : polls[j].i = 1 /\ polls[j + 1].i = 2
  /\ \E j \in 1..Len(polls) : Requests(polls[j].calls, "cleanfs") # {}
  /\ LastKnown(1) = MfsCid(mfs, <<"w">>) /\ LastKnown(2) = MfsCid(mfs, <<"v">>)
  /\ LastKnown(1) # MfsCid(Mfs2, <<"w">>) /\ LastKnown(2) # MfsCid(Mfs2, <<"v">>)

\* -------------------------------------------------- the mirror specification
\* The watcher and the main loop of a registered directory, with a remote node that
\* answers every request; files and a directory come and go. Both goroutines keep
\* running: a step one of them can take is eventually taken.
MaxLiveOps == 3     \* filesystem mutations in the mirror specification

LiveFiles == {FA, FDB}
LiveDirs == {DD}

InitLive ==
  \E pin \in BOOLEAN :
    InitRunning(0, MaxLiveOps, FALSE, <<>>, TRUE, Nil, {}, [DK EXCEPT !.Pin = pin])

WatcherStep ==
  \E i \in 1..Len(DirKeys) :
    \/ W_Event(i) \/ W_Hash(i) \/ W_Remove(i) \/ W_DbDel(i)
    \/ AF_Add(i) \/ AF_MkDir(i) \/ AF_Rm(i) \/ AF_Cp(i)

MainStep == M_Sleep \/ M_Poll \/ M_PinUpdate \/ M_Publish

NextLive ==
  \/ \E k \in LiveFiles, v \in {V1} : FsCreate(k, v)
  \/ \E k \in LiveFiles, v \in {V3} : FsWrite(k, v)
  \/ \E k \in LiveFiles : FsRemove(k)
  \/ \E d \in LiveDirs, S \in SUBSET LiveFiles : FsMoveIn(d, S)
  \/ \E d \in LiveDirs : FsMoveOut(d)
  \/ \E i \in 1..Len(DirKeys) : W_Event(i)
  \/ \E i \in 1..Len(DirKeys) : W_Hash(i)
  \/ \E i \in 1..Len(DirKeys) : W_Remove(i)
  \/ \E i \in 1..Len(DirKeys) : W_DbDel(i)
  \/ \E p \in Procs : AF_Add(p)
  \/ \E p \in Procs : AF_MkDir(p)
  \/ \E p \in Procs : AF_Rm(p)
  \/ \E p \in Procs : AF_Cp(p)
  \/ M_Sleep
  \/ M_Poll
  \/ M_PinUpdate
  \/ M_Publish

SpecLive ==
  InitLive /\ [][NextLive]_vars /\ WF_vars(WatcherStep) /\ WF_vars(MainStep)

\* the remote mount mirrors every file below the watched directories
InSync ==
  \A i \in 1..Len(DirKeys) : \A k \in UFiles :
    Under(k, TrimSep(DirKeys[i].Dir)) => RemoteMatches(k, MfsPathOf(DirKeys[i].Dir, k))

\* every directory's identity is published to the current snapshot id of its mount
Published ==
  \A i \in 1..Len(DirKeys) :
    LET name == <<KeySpace, DirKeys[i].ID>> IN
    /\ DirKeys[i].MFSPath \in DOMAIN mfs
    /\ name \in DOMAIN ipns
    /\ ipns[name] = MfsCid(mfs, DirKeys[i].MFSPath)

\* an operation of a watcher or a request of a drift repair has reported an error
AnyFailure ==
  \/ \E j \in 1..Len(applied) : applied[j].err # NoErr
  \/ \E j \in 1..Len(polls) : \E k \in 1..Len(polls[j].calls) : polls[j].calls[k].err # NoErr

\* C8 (as claimed): when files under a watched directory are created, modified or removed and
\* no remote call fails, then eventually, and from then on, the directory's identity
\* is published to the current snapshot id of the remote mount and that snapshot
\* mirrors the local files.
C8_EventuallyPublished == <>[](AnyFailure \/ (InSync /\ Published))

\* ------------------------------------- a failed overwrite and the remote entry
\* the AddFile call of goroutine p has removed the entry at its target path
RemovedExisting(p) ==
  \E k \in 1..Len(calls[p]) : calls[p][k].op = "rm" /\ calls[p][k].err = NoErr

\* C32: when an AddFile with overwrite has returned an error after it had removed
\* the entry at the target path, the target path has an entry.
C32_FailedOverwriteKeepsEntry ==
  \A p \in DOMAIN af :
    (af[p].pc = "ret" /\ af[p].overwrite /\ af[p].rerr # NoErr /\ RemovedExisting(p))
      => af[p].to \in DOMAIN mfs

\* ------------------------------- the poll loop and an overwrite in progress
\* C33: no drift repair pins or publishes a snapshot id that the poll loop read
\* while an overwrite had removed the entry of a local file and not linked it again.
C33_NoSnapshotBetweenRemoveAndRelink ==
  \A j \in 1..Len(polls) :
    LET log == polls[j].calls IN
    log[1].relinking # {}
      => \A k \in 2..Len(log) :
           log[k].op \in {"pinupdate", "pinadd", "publish"} => log[k].err # NoErr

\* --------------------------------- the directory cache and the remote mount
\* the MFS directory AddFile makes for a file in the local directory d
MfsDirOf(dk, d) == MfsParent(MfsPathOf(dk.Dir, d \o <<SEP, "x">>))

\* C34: whenever a watcher waits for the next event and none is queued, every
\* directory in its directory cache is a directory of the remote mount.
C34_CachedDirsExistRemotely ==
  \A i \in DOMAIN wat :
    (wat[i].pc = "select" /\ events[i] = <<>>)
      => \A d \in wat[i].localDirs :
           /\ MfsDirOf(DirKeys[i], d) \in DOMAIN mfs
           /\ mfs[MfsDirOf(DirKeys[i], d)] = "dir"

\* ------------------------------------------ a failed publish, an empty snapshot id
\* C35: a drift repair leaves last-known at the new snapshot id only if its publish
\* succeeded, and at the old value if the publish failed.
C35_LastKnownFollowsPublish ==
  \A j \in 1..Len(polls) :
    LET r == polls[j] IN
    \A k \in Requests(r.calls, "publish") :
      /\ r.cid = r.to => r.calls[k].err = NoErr
      /\ r.calls[k].err # NoErr => r.cid = r.from

\* the step of the poll loop in which GetFileCID returns "": the request failed or
\* the path has no entry
PollsEmpty ==
  /\ main.pc = "poll" /\ main' # main
  /\ calls'[Main][1].op = "stat" /\ calls'[Main][1].err # NoErr

\* C36: a poll whose snapshot id is empty goes on to the next directory (or to the
\* sleep) with the stat as its only request: nothing is pinned or published and
\* last-known stays as it was.
C36_EmptySnapshotNoOp ==
  [][PollsEmpty => /\ main' = AfterDir(main)
                   /\ Len(calls'[Main]) = 1
                   /\ DirKeys' = DirKeys /\ pins' = pins /\ ipns' = ipns
                   /\ polls' = polls]_vars

\* the mount of a directory has drifted from last-known and the poll of the pass
\* just ended got no snapshot id
C36_Witness ==
  /\ main.pc = "sleep" /\ Len(calls[Main]) = 1
  /\ calls[Main][1].op = "stat" /\ calls[Main][1].err # NoErr
  /\ \E i \in 1..Len(DirKeys) :
       /\ DirKeys[i].MFSPath = calls[Main][1].arg
       /\ DirKeys[i].MFSPath \in DOMAIN mfs
       /\ MfsCid(mfs, DirKeys[i].MFSPath) # DirKeys[i].CID

\* ------------------------------------------ the filestore scan (main.go)
\* CleanFilestore alone, called by two goroutines at any time. The remote node is
\* the environment: it chooses the stream, it may hold the block of the missing
\* file under a pin of its own or under the pin of a directory, and it may fail.
PinnedDir == MfsCid(MfsCp(Mfs0, CidOf(V1.c), MfsPathOf(RDir, FA)), <<"w">>)

InitClean ==
  /\ IgnoreHidden = FALSE /\ Ignore = <<>> /\ UseDB = FALSE /\ EstuaryAPIKey = Nil
  /\ DirKeys = <<>>
  /\ fs = <<>> /\ mfs = <<>> /\ keys = {} /\ ipns = <<>>
  /\ pins \in SUBSET {CidOf(V1.c), PinnedDir}
  /\ faults = 1 /\ fsops = 0
  /\ DB = <<>> /\ Hashes = <<>> /\ HashLock = NoProc
  /\ main = [pc |-> "clean"] /\ wat = <<>> /\ events = <<>> /\ af = <<>>
  /\ posted = 0 /\ calls = <<>> /\ applied = <<>> /\ polls = <<>>
  /\ dbop = NoOp
  /\ filestore = [lock |-> 0, cf |-> [p \in Cleaners |-> NoClean], most |-> MaxStream]

ScanStep(p) == CF_Verify(p) \/ CF_Decode(p) \/ RB_BlockRm(p) \/ RB_PinRm(p)

NextClean ==
  \E p \in Cleaners :
    \/ CF_Enter(p)
    \/ CF_Verify(p)
    \/ CF_Decode(p)
    \/ RB_BlockRm(p)
    \/ RB_PinRm(p)

\* a goroutine that is in CleanFilestore keeps running
SpecClean == InitClean /\ [][NextClean]_vars /\ \A p \in Cleaners : WF_vars(ScanStep(p))

\* the entries among the first n of a stream that decode with status NoFile
Missing(s, n) == {k \in 1..n : s[k].json = "value" /\ s[k].Status = NoFile}

\* the entry RemoveBlock has been called for and no block/rm was issued for yet
Pending(f) == IF f.pc = "blockrm" /\ f.pos \notin f.rm THEN {f.pos} ELSE {}

\* C31: a scan issues a block removal for exactly the entries streamed so far whose
\* status is "backing file missing", and every entry whose decoding failed has been
\* passed over: the decoder stands behind it.
C31_RemovesMissingSkipsUndecodable ==
  \A p \in Cleaners :
    LET f == filestore.cf[p]
    IN  /\ f.rm \cup Pending(f) = Missing(f.stream, f.pos)
        /\ f.failed \subseteq 1..f.pos

\* a call that holds the guard: it is between its select and its return
Scanning(p) == filestore.cf[p].pc \in {"verify", "loop", "blockrm", "pinrm"}

\* C37: the guard is held exactly while one scan is in progress (never two, and it
\* is free again once the scan has returned, whichever way it returned), and a call
\* that found the guard taken has returned without a remote call.
C37_OneScanGuardReleased ==
  /\ filestore.lock \in {0, 1}
  /\ filestore.lock = Cardinality({p \in Cleaners : Scanning(p)})
  /\ \A p \in Cleaners :
       (filestore.cf[p].pc = "ret" /\ ~filestore.cf[p].got) => ~filestore.cf[p].remote

\* a call has returned at once, without the guard, while the scan of another
\* goroutine is removing a block
C37_Witness ==
  \E p, q \in Cleaners :
    /\ p # q
    /\ filestore.cf[p].pc = "ret" /\ ~filestore.cf[p].got
    /\ filestore.cf[q].pc = "blockrm" /\ filestore.cf[q].rm # {}

\* C38: a RemoveBlock that has started returns.
C38_RemoveBlockTerminates ==
  \A p \in Cleaners :
    (filestore.cf[p].pc = "blockrm") ~> (filestore.cf[p].pc \notin {"blockrm", "pinrm"})

\* ------------------------------------------- the cheap fingerprint (db.go)
\* Two files whose sizes and modification times are drawn from the int64 values
\* with at most one byte set, fingerprinted in cheap mode.
\* the int64 whose k-th byte (counted from 1, least significant first) is 1 and
\* whose other bytes are 0; the int64 0 for k = 0
OneAt(k) == [j \in 1..8 |-> IF j = k THEN 1 ELSE 0]
CheapValues == {OneAt(k) : k \in 0..8}
CheapFiles == {PAB, PAC}

InitCheap ==
  /\ IgnoreHidden = FALSE /\ Ignore = <<>> /\ UseDB = TRUE /\ EstuaryAPIKey = Nil
  /\ DirKeys = <<>>
  /\ fs \in [CheapFiles -> {[kind |-> "file", c |-> 1, size |-> sz, mtime |-> t] :
                              sz \in CheapValues, t \in CheapValues}]
  /\ mfs = <<>> /\ keys = {} /\ ipns = <<>> /\ pins = {}
  /\ faults = 0 /\ fsops = 0
  /\ DB = <<>> /\ Hashes = <<>> /\ HashLock = NoProc
  /\ main = [pc |-> "cheap"] /\ wat = <<>> /\ events = <<>> /\ af = <<>>
  /\ posted = 0 /\ calls = <<>> /\ applied = <<>> /\ polls = <<>>
  /\ dbop = NoOp
  /\ filestore = NoScans

\* Recalculate(fname, true) of a file not in the mirror yet
CheapRecalculate(fname) ==
  /\ main.pc = "cheap" /\ fname \in DOMAIN fs /\ fname \notin DOMAIN Hashes
  /\ Hashes' = [k \in DOMAIN Hashes \cup {fname} |->
                  IF k = fname THEN Recalculate(NewFH, fs, fname, TRUE) ELSE Hashes[k]]
  /\ UNCHANGED <<cfgVars, filestore, DirKeys, fs, remoteVars, faults, fsops, DB, HashLock, main,
                 watVars, af, histVars>>

NextCheap == \E fname \in CheapFiles : CheapRecalculate(fname)

SpecCheap == InitCheap /\ [][NextCheap]_vars

\* C39: cheap fingerprints have 16 bytes, and the fingerprints of two files that
\* differ in size or in modification time differ.
C39_CheapFingerprintInjective ==
  \A a, b \in DOMAIN Hashes :
    /\ Len(Hashes[a].FakeHash) = 16
    /\ (fs[a].size # fs[b].size \/ fs[a].mtime # fs[b].mtime)
         => Hashes[a].FakeHash # Hashes[b].FakeHash

====
